---- MODULE Spec2Model ----
(***************************************************************************)
(* Script-Aligner: the offline alignment and text-normalization engine of  *)
(* src/services/offlineService.ts (cleanText, parseSrt, stringifySrt,      *)
(* applyWordBank, alignSrtOffline, the ITN passes and the phonetic         *)
(* normalizer).                                                            *)
(*                                                                         *)
(* JavaScript strings are TLA+ strings; a character is a string of length  *)
(* one.  Regular expressions of the source are written as syntax trees     *)
(* and matched by a backtracking matcher that follows the ECMAScript       *)
(* priority order (leftmost alternative first, greedy quantifiers longest  *)
(* first, lazy quantifiers shortest first).                                *)
(***************************************************************************)
EXTENDS Integers, Sequences, FiniteSets, TLC

VARIABLES
    pc,                 \* position of the invocation / of the function under check
    srtContent,         \* alignSrtOffline argument
    scriptContent,      \* alignSrtOffline argument
    customWordBank,     \* alignSrtOffline argument (ordered key/value entries)
    srtBlocks,          \* parsed blocks, text rewritten in step 6
    scriptWords,        \* tokens of the cleaned script
    srtWordMap,         \* flattened caption words with their block index
    diffs,              \* result of Diff.diffWords
    newBlockTexts,      \* one bucket of words per block
    currentBlockIndex,
    srtWordCursor,
    partIdx,            \* index of the diff part being walked (diffs.forEach)
    partWords,          \* the words of that part
    wordIdx,            \* index of the word being walked inside the part, 0 before
    settled,            \* "pending" | "resolved" | "rejected"
    result,             \* value the promise resolved with
    error,              \* message of the Error the promise rejected with
    input,              \* argument of a pure function under check
    output,             \* its result
    wordBank,           \* the object WORD_BANK of utils/wordBank, as it is now
    calls,              \* the promises the callers hold, in the order of the calls
    app                 \* the state of the component App (App.tsx 14-31)

vars == << pc, srtContent, scriptContent, customWordBank, srtBlocks, scriptWords,
           srtWordMap, diffs, newBlockTexts, currentBlockIndex, srtWordCursor,
           partIdx, partWords, wordIdx, settled, result, error, input, output,
           wordBank, calls, app >>

-----------------------------------------------------------------------------
(* Characters and strings                                                  *)

Char(s, i) == SubSeq(s, i, i)

Digits == {"0", "1", "2", "3", "4", "5", "6", "7", "8", "9"}

LowerSeq == "abcdefghijklmnopqrstuvwxyz"

UpperSeq == "ABCDEFGHIJKLMNOPQRSTUVWXYZ"

LowerLetters == { Char(LowerSeq, i) : i \in 1..Len(LowerSeq) }

UpperLetters == { Char(UpperSeq, i) : i \in 1..Len(UpperSeq) }

Letters == LowerLetters \cup UpperLetters

\* \s of ECMAScript, restricted to the white space an ASCII text holds
WhiteSpace == {" ", "\n", "\t", "\r", "\f"}

\* LineTerminator of ECMAScript ('.' excludes it, '^' and '$' with flag m see it)
LineTerminators == {"\n", "\r"}

\* \w of ECMAScript
WordChars == Letters \cup Digits \cup {"_"}

LowerMap == [ c \in UpperLetters |->
                Char(LowerSeq, CHOOSE i \in 1..Len(UpperSeq) : Char(UpperSeq, i) = c) ]

UpperMap == [ c \in LowerLetters |->
                Char(UpperSeq, CHOOSE i \in 1..Len(LowerSeq) : Char(LowerSeq, i) = c) ]

ToLowerChar(c) == IF c \in UpperLetters THEN LowerMap[c] ELSE c

\* the value of F at the value of x, x evaluated once
Let(x, F(_)) == CHOOSE out \in { F(v) : v \in {x} } : TRUE

\* the sequence f, every element of it evaluated once
Tuple(f) == Let(f, LAMBDA g : SubSeq(g, 1, Len(g)))

\* the concatenation of parts[lo..hi] with sep between them (halving keeps the
\* evaluation shallow on long texts)
RECURSIVE JoinRange(_, _, _, _)
JoinRange(parts, sep, lo, hi) ==
    IF lo > hi THEN ""
    ELSE IF lo = hi THEN parts[lo]
    ELSE JoinRange(parts, sep, lo, (lo + hi) \div 2) \o sep
         \o JoinRange(parts, sep, ((lo + hi) \div 2) + 1, hi)

\* Array.prototype.join
join(parts, sep) ==
    Let(Tuple(parts), LAMBDA ps : JoinRange(ps, sep, 1, Len(ps)))

\* String.prototype.toLowerCase
toLowerCase(s) ==
    Let(s, LAMBDA str : join([i \in 1..Len(str) |-> ToLowerChar(Char(str, i))], ""))

Min(S) == CHOOSE x \in S : \A y \in S : x <= y

Max(S) == CHOOSE x \in S : \A y \in S : x >= y

\* String.prototype.trim
trim(s) ==
    Let(s, LAMBDA str :
        Let({ i \in 1..Len(str) : Char(str, i) \notin WhiteSpace },
            LAMBDA keep : IF keep = {} THEN "" ELSE SubSeq(str, Min(keep), Max(keep))))

\* Array.prototype.slice(from)
slice(a, from) == SubSeq(a, from + 1, Len(a))

-----------------------------------------------------------------------------
(* Regular expressions: syntax trees                                       *)

Set(cs)      == [t |-> "set", cs |-> cs]
NotSet(cs)   == [t |-> "nset", cs |-> cs]
Dot          == NotSet(LineTerminators)
Seq_(rs)     == [t |-> "seq", rs |-> rs]
Alt(rs)      == [t |-> "alt", rs |-> rs]
Rep(r, lo, hi, greedy) == [t |-> "rep", r |-> r, lo |-> lo, hi |-> hi, greedy |-> greedy]
Unbounded    == -1
Star(r)      == Rep(r, 0, Unbounded, TRUE)
Plus(r)      == Rep(r, 1, Unbounded, TRUE)
Opt(r)       == Rep(r, 0, 1, TRUE)
LazyStar(r)  == Rep(r, 0, Unbounded, FALSE)
BOL          == [t |-> "bol"]     \* ^ with flag m
EOL          == [t |-> "eol"]     \* $ with flag m
EOS          == [t |-> "eos"]     \* $ without flag m
WB           == [t |-> "wb"]      \* \b

\* a literal, case-sensitive
Lit(s) == Seq_(Tuple([i \in 1..Len(s) |-> Set({Char(s, i)})]))

\* both cases of a character (flag i)
BothCases(c) ==
    IF c \in UpperLetters THEN {c, LowerMap[c]}
    ELSE IF c \in LowerLetters THEN {c, UpperMap[c]}
    ELSE {c}

\* a literal under flag i
LitI(s) == Seq_(Tuple([i \in 1..Len(s) |-> Set(BothCases(Char(s, i)))]))

-----------------------------------------------------------------------------
(* Regular expressions: the backtracking matcher.  Ends(r, s, i) is the    *)
(* sequence of positions (number of characters consumed so far) at which   *)
(* a match of r starting at position i can end, in the order backtracking  *)
(* tries them; the first is the one a successful match takes.              *)

\* acc followed by the positions of xs it does not hold yet
AppendNew(acc, xs) == acc \o SelectSeq(xs, LAMBDA x : \A k \in 1..Len(acc) : acc[k] # x)

\* the positions of every sequence of seqs[lo..hi], in order, each once
RECURSIVE FlattenNew(_, _, _)
FlattenNew(seqs, lo, hi) ==
    IF lo > hi THEN <<>>
    ELSE IF lo = hi THEN seqs[lo]
    ELSE Let(FlattenNew(seqs, lo, (lo + hi) \div 2),
             LAMBDA acc : Let(FlattenNew(seqs, ((lo + hi) \div 2) + 1, hi),
                              LAMBDA xs : AppendNew(acc, xs)))

\* the sequences seqs[lo..hi] one after the other
RECURSIVE Flatten(_, _, _)
Flatten(seqs, lo, hi) ==
    IF lo > hi THEN << >>
    ELSE IF lo = hi THEN seqs[lo]
    ELSE Flatten(seqs, lo, (lo + hi) \div 2) \o Flatten(seqs, ((lo + hi) \div 2) + 1, hi)

IsWordAt(s, i) == i >= 1 /\ i <= Len(s) /\ Char(s, i) \in WordChars

\* does the one-character atom r (a class or a negated class) accept c
Accepts(r, c) == IF r.t = "set" THEN c \in r.cs ELSE c \notin r.cs

IsAtom(r) == r.t \in {"set", "nset"}

\* the end of the longest run of at most `most` characters (-1: any number)
\* after position i that the atom r accepts
RunEnd(r, s, i, most) ==
    LET last == IF most = Unbounded \/ i + most > Len(s) THEN Len(s) ELSE i + most
    IN  IF \E j \in (i + 1)..last : ~Accepts(r, Char(s, j))
        THEN (CHOOSE j \in (i + 1)..last :
                /\ ~Accepts(r, Char(s, j))
                /\ \A k \in (i + 1)..(j - 1) : Accepts(r, Char(s, k))) - 1
        ELSE last

\* the ends lo..e of a quantified atom whose run ends at e, longest first when
\* greedy
RunEnds(r, i, e) ==
    IF e < i + r.lo THEN <<>>
    ELSE IF r.greedy THEN [k \in 1..(e - (i + r.lo) + 1) |-> e - (k - 1)]
    ELSE [k \in 1..(e - (i + r.lo) + 1) |-> i + r.lo + (k - 1)]

\* a quantified atom: every count from lo up to the run
EndsRun(r, s, i) == RunEnds(r, i, RunEnd(r.r, s, i, r.hi))

\* the order in which backtracking tries one more iteration and stopping
TryOrder(greedy, more, stop) ==
    IF greedy THEN AppendNew(more, stop) ELSE AppendNew(stop, more)

RECURSIVE Ends(_, _, _)
RECURSIVE EndsSeq(_, _, _, _)
RECURSIVE EndsAlt(_, _, _, _)
RECURSIVE EndsRep(_, _, _, _)
RECURSIVE EndsEach(_, _, _)
RECURSIVE EndsRepEach(_, _, _, _)

Ends(r, s, i) ==
    CASE r.t = "set"  -> IF i < Len(s) /\ Char(s, i + 1) \in r.cs THEN << i + 1 >> ELSE <<>>
      [] r.t = "nset" -> IF i < Len(s) /\ Char(s, i + 1) \notin r.cs THEN << i + 1 >> ELSE <<>>
      [] r.t = "bol"  -> IF i = 0 \/ Char(s, i) \in LineTerminators THEN << i >> ELSE <<>>
      [] r.t = "eol"  -> IF i = Len(s) \/ Char(s, i + 1) \in LineTerminators THEN << i >> ELSE <<>>
      [] r.t = "eos"  -> IF i = Len(s) THEN << i >> ELSE <<>>
      [] r.t = "wb"   -> IF IsWordAt(s, i) # IsWordAt(s, i + 1) THEN << i >> ELSE <<>>
      [] r.t = "seq"  -> EndsSeq(r.rs, 1, s, << i >>)
      [] r.t = "alt"  -> EndsAlt(r.rs, 1, s, i)
      [] r.t = "rep"  -> IF IsAtom(r.r) THEN EndsRun(r, s, i) ELSE EndsRep(r, s, i, 0)

\* the continuation of every position of `from`, in order
EndsEach(r, s, from) ==
    Let(SubSeq([k \in 1..Len(from) |-> Ends(r, s, from[k])], 1, Len(from)),
        LAMBDA ends : FlattenNew(ends, 1, Len(from)))

EndsSeq(rs, k, s, from) ==
    IF k > Len(rs) \/ from = <<>> THEN from
    ELSE Let(EndsEach(rs[k], s, from), LAMBDA next : EndsSeq(rs, k + 1, s, next))

EndsAlt(rs, k, s, i) ==
    Let(SubSeq([j \in 1..Len(rs) |-> Ends(rs[j], s, i)], 1, Len(rs)),
        LAMBDA ends : FlattenNew(ends, 1, Len(rs)))

\* a quantified group: `done` iterations made so far, none of them empty
EndsRep(r, s, i, done) ==
    Let(IF r.hi # Unbounded /\ done >= r.hi THEN <<>>
        ELSE Let(SelectSeq(Ends(r.r, s, i), LAMBDA e : e # i),
                 LAMBDA next : EndsRepEach(r, s, next, done + 1)),
        LAMBDA more : TryOrder(r.greedy, more, IF done >= r.lo THEN << i >> ELSE <<>>))

EndsRepEach(r, s, next, done) ==
    Let(SubSeq([k \in 1..Len(next) |-> EndsRep(r, s, next[k], done)], 1, Len(next)),
        LAMBDA ends : FlattenNew(ends, 1, Len(next)))

\* the first of the ends es, or -1
FirstEnd(es) == IF es = <<>> THEN -1 ELSE es[1]

\* end of the match of r at position i, or -1
MatchEnd(r, s, i) == Let(Ends(r, s, i), LAMBDA es : FirstEnd(es))

\* can r match the empty string
RECURSIVE CanBeEmpty(_)
CanBeEmpty(r) ==
    CASE r.t \in {"set", "nset"} -> FALSE
      [] r.t \in {"bol", "eol", "eos", "wb"} -> TRUE
      [] r.t = "seq" -> \A k \in 1..Len(r.rs) : CanBeEmpty(r.rs[k])
      [] r.t = "alt" -> \E k \in 1..Len(r.rs) : CanBeEmpty(r.rs[k])
      [] r.t = "rep" -> r.lo = 0 \/ CanBeEmpty(r.r)

\* the characters a non-empty match of r can start with: cs, or any character
AnyFirst == [any |-> TRUE, cs |-> {}]

RECURSIVE FirstOf(_)
RECURSIVE FirstOfSeq(_, _)
FirstOf(r) ==
    CASE r.t = "set" -> [any |-> FALSE, cs |-> r.cs]
      [] r.t = "nset" -> AnyFirst
      [] r.t \in {"bol", "eol", "eos", "wb"} -> [any |-> FALSE, cs |-> {}]
      [] r.t = "seq" -> FirstOfSeq(r.rs, 1)
      [] r.t = "alt" -> [any |-> \E k \in 1..Len(r.rs) : FirstOf(r.rs[k]).any,
                         cs  |-> UNION { FirstOf(r.rs[k]).cs : k \in 1..Len(r.rs) }]
      [] r.t = "rep" -> FirstOf(r.r)

FirstOfSeq(rs, k) ==
    IF k > Len(rs) THEN [any |-> FALSE, cs |-> {}]
    ELSE IF CanBeEmpty(rs[k])
         THEN [any |-> FirstOf(rs[k]).any \/ FirstOfSeq(rs, k + 1).any,
               cs  |-> FirstOf(rs[k]).cs \cup FirstOfSeq(rs, k + 1).cs]
         ELSE FirstOf(rs[k])

\* the positions of s at which a match of r need be attempted at all: where r
\* can match the empty string, or the next character can start a match
Candidates(r, s) ==
    IF CanBeEmpty(r) \/ FirstOf(r).any THEN 0..Len(s)
    ELSE Let(FirstOf(r).cs, LAMBDA cs : { p \in 0..(Len(s) - 1) : Char(s, p + 1) \in cs })

\* the match attempted at every position of s: the entry p + 1 is for position p
tableOver(r, s, at) ==
    SubSeq([k \in 1..(Len(s) + 1) |-> IF k - 1 \in at THEN MatchEnd(r, s, k - 1) ELSE -1],
           1, Len(s) + 1)

MatchTable(r, s) == Let(Candidates(r, s), LAMBDA at : tableOver(r, s, at))

\* the positions 0..n at which the table M has a match, in order
matchStarts(M, n) == SelectSeq([k \in 1..(n + 1) |-> k - 1], LAMBDA p : M[p + 1] # -1)

\* the match p..e met when the search stands at cur: taken unless it starts
\* before cur or, when splitting, ends at cur; the result is the matches
\* taken and where the search stands next (lastIndex steps over an empty
\* match; a split goes on from the end of the separator)
scanOne(e, p, cur, splitting) ==
    IF p >= cur /\ (~splitting \/ e # cur)
    THEN << << << p, e >> >>, IF ~splitting /\ e = p THEN p + 1 ELSE e >>
    ELSE << << >>, cur >>

scanJoin(left, right) == << left[1] \o right[1], right[2] >>

\* the successive matches among those that start at hs[lo..hi]
RECURSIVE Scan(_, _, _, _, _, _)
scanRight(M, hs, lo, hi, left, splitting) ==
    Let(Scan(M, hs, lo, hi, left[2], splitting), LAMBDA right : scanJoin(left, right))

Scan(M, hs, lo, hi, cur, splitting) ==
    IF lo = hi THEN scanOne(M[hs[lo] + 1], hs[lo], cur, splitting)
    ELSE Let(Scan(M, hs, lo, (lo + hi) \div 2, cur, splitting),
             LAMBDA left : scanRight(M, hs, ((lo + hi) \div 2) + 1, hi, left, splitting))

scanAll(M, hs, cur, splitting) ==
    IF hs = << >> THEN << >> ELSE Scan(M, hs, 1, Len(hs), cur, splitting)[1]

\* the successive matches of a global regular expression from position i on,
\* as << start, end >> pairs
MatchesFrom(M, n, i) == Let(matchStarts(M, n), LAMBDA hs : scanAll(M, hs, i, FALSE))

Matches(r, s) == Let(MatchTable(r, s), LAMBDA M : MatchesFrom(M, Len(s), 0))

\* s with every match replaced by rep[k], the replacement of the k-th match
ReplaceMatches(s, ms, rep) ==
    LET piece(k) == SubSeq(s, (IF k = 1 THEN 0 ELSE ms[k - 1][2]) + 1, ms[k][1]) \o rep[k]
        last == IF ms = <<>> THEN s ELSE SubSeq(s, ms[Len(ms)][2] + 1, Len(s))
    IN  join([k \in 1..Len(ms) |-> piece(k)], "") \o last

\* the matches ms all replaced by rep
ReplaceAll(s, ms, rep) == ReplaceMatches(s, ms, [k \in 1..Len(ms) |-> rep])

\* String.prototype.replace(/r/g, rep), rep without $-patterns
replace(s, r, rep) ==
    Let(<< s, r >>,
        LAMBDA a : Let(Matches(a[2], a[1]), LAMBDA ms : ReplaceAll(a[1], ms, rep)))

\* the texts of the matches ms
Slices(s, ms) == SubSeq([k \in 1..Len(ms) |-> SubSeq(s, ms[k][1] + 1, ms[k][2])], 1, Len(ms))

\* String.prototype.match(/r/g) || []
matchAll(s, r) ==
    Let(s, LAMBDA str : Let(Matches(r, str), LAMBDA ms : Slices(str, ms)))

\* the pieces of s between the separators seps
SplitAt(s, seps) ==
    SubSeq([k \in 1..(Len(seps) + 1) |->
              SubSeq(s, (IF k = 1 THEN 0 ELSE seps[k - 1][2]) + 1,
                        IF k <= Len(seps) THEN seps[k][1] ELSE Len(s))],
           1, Len(seps) + 1)

\* the pieces of s: a separator starts before the end of s and is not an
\* empty match at the end of the previous one
SplitFrom(M, s) ==
    Let(matchStarts(M, Len(s) - 1),
        LAMBDA hs : Let(scanAll(M, hs, 0, TRUE), LAMBDA seps : SplitAt(s, seps)))

\* String.prototype.split(/r/)
split(s, r) ==
    Let(s, LAMBDA str :
        IF Len(str) = 0 THEN (IF MatchEnd(r, str, 0) # -1 THEN <<>> ELSE << "" >>)
        ELSE Let(MatchTable(r, str), LAMBDA M : SplitFrom(M, str)))

-----------------------------------------------------------------------------
(* cleanText (offlineService.ts 22-58)                                     *)

WS == Set(WhiteSpace)

\* /(https?:\/\/[^\s]+)/g
UrlHttpRe == Seq_(<< Lit("http"), Opt(Lit("s")), Lit("://"), Plus(NotSet(WhiteSpace)) >>)

\* /(www\.[^\s]+)/g
UrlWwwRe == Seq_(<< Lit("www."), Plus(NotSet(WhiteSpace)) >>)

\* /[\[\(\{<].*?[\]\)\}>]/g
BracketRe == Seq_(<< Set({"[", "(", "{", "<"}), LazyStar(Dot), Set({"]", ")", "}", ">"}) >>)

\* /^(INT\.|EXT\.|SCENE\s|CUT TO:|FADE IN:|CAMERA|ANGLE).*/gmi
SceneRe ==
    Seq_(<< BOL,
            Alt(<< LitI("INT."), LitI("EXT."), Seq_(<< LitI("SCENE"), WS >>),
                   LitI("CUT TO:"), LitI("FADE IN:"), LitI("CAMERA"), LitI("ANGLE") >>),
            Star(Dot) >>)

\* [A-Za-z0-9\s\.\(\)\-]
SpeakerNameChars == Letters \cup Digits \cup WhiteSpace \cup {".", "(", ")", "-"}

SpeakerNameMax == 30

\* /^\s*(?:>|-)?\s*([A-Za-z0-9\s\.\(\)\-]{1,30})(?::|\s+-)\s+/gm
SpeakerRe ==
    Seq_(<< BOL, Star(WS), Opt(Set({">", "-"})), Star(WS),
            Rep(Set(SpeakerNameChars), 1, SpeakerNameMax, TRUE),
            Alt(<< Lit(":"), Seq_(<< Plus(WS), Lit("-") >>) >>),
            Plus(WS) >>)

\* /^\s*unknow[n]?\s*$/gmi
UnknownLineRe ==
    Seq_(<< BOL, Star(WS), LitI("unknow"), Opt(LitI("n")), Star(WS), EOL >>)

\* a word rule that takes the spelling "unknown" as well
UnknowOrUnknownWordRe == Seq_(<< WB, LitI("unknow"), Opt(LitI("n")), WB >>)

\* /\bunknow\b/gi
UnknowWordRe == Seq_(<< WB, LitI("unknow"), WB >>)

\* /^\s*\d+\s*$/gm
NumericLineRe == Seq_(<< BOL, Star(WS), Plus(Set(Digits)), Star(WS), EOL >>)

\* /\s+/g
SpacesRe == Plus(WS)

\* /\S+/g
NonSpaceRe == Plus(NotSet(WhiteSpace))

\* the steps of cleanText, each applied to the value of the step before
cleanSteps == << << UrlHttpRe, "" >>, << UrlWwwRe, "" >>, << BracketRe, "" >>,
                 << SceneRe, "" >>, << SpeakerRe, "" >>, << UnknownLineRe, "" >>,
                 << UnknowWordRe, "" >>, << NumericLineRe, "" >>, << SpacesRe, " " >> >>

\* s after the replacements steps[lo..hi], in order
RECURSIVE ReplaceRange(_, _, _, _)
ReplaceRange(s, steps, lo, hi) ==
    IF lo > hi THEN s
    ELSE IF lo = hi THEN replace(s, steps[lo][1], steps[lo][2])
    ELSE Let(ReplaceRange(s, steps, lo, (lo + hi) \div 2),
             LAMBDA half : ReplaceRange(half, steps, ((lo + hi) \div 2) + 1, hi))

\* s after the replacements steps[k..], in order
ReplaceEach(s, steps, k) ==
    Let(<< s, Tuple(steps) >>,
        LAMBDA a : ReplaceRange(a[1], a[2], k, Len(a[2])))

cleanText(text) == trim(ReplaceEach(text, cleanSteps, 1))

-----------------------------------------------------------------------------
(* parseSrt, stringifySrt (offlineService.ts 63-91)                        *)

\* /\r\n/g
CrLfRe == Lit("\r\n")

\* /\n\n+/
BlankLinesRe == Seq_(<< Lit("\n"), Plus(Set({"\n"})) >>)

\* a parser that takes a chunk of two lines for a block with an empty text
blockOfTwoLines(lines) ==
    IF Len(lines) < 2 THEN << >>
    ELSE << [ id         |-> lines[1],
              time       |-> lines[2],
              text       |-> cleanText(join(slice(lines, 2), " ")),
              cleanWords |-> << >> ] >>

\* a parse that asks for four lines: a block of one text line is dropped
blockOfFourLines(lines) ==
    IF Len(lines) < 4 THEN << >>
    ELSE << [ id         |-> lines[1],
              time       |-> lines[2],
              text       |-> cleanText(join(slice(lines, 2), " ")),
              cleanWords |-> << >> ] >>

\* the block of the lines of one chunk of the track: << block >>, or << >> for
\* the null of a chunk that has fewer than 3 lines
blockOf(lines) ==
    IF Len(lines) < 3 THEN << >>
    ELSE Let(cleanText(join(slice(lines, 2), " ")),
             LAMBDA cleanedText :
                << [ id         |-> lines[1],
                     time       |-> lines[2],
                     text       |-> cleanedText,
                     cleanWords |-> split(trim(cleanedText), SpacesRe) ] >>)

parseBlock(block) == Let(split(block, Lit("\n")), LAMBDA lines : blockOf(lines))

\* .filter(b => b !== null)
notNull(parsed) == Let(Tuple(parsed), LAMBDA ps : Flatten(ps, 1, Len(ps)))

parseBlocks(blocks) == notNull([k \in 1..Len(blocks) |-> parseBlock(blocks[k])])

parseSrt(srt) ==
    Let(split(replace(srt, CrLfRe, "\n"), BlankLinesRe), LAMBDA blocks : parseBlocks(blocks))

stringifySrt(blocks) ==
    join([k \in 1..Len(blocks) |->
            blocks[k].id \o "\n" \o blocks[k].time \o "\n" \o blocks[k].text], "\n\n")

-----------------------------------------------------------------------------
(* Objects used as dictionaries.  An object literal is the sequence of its *)
(* own << key, value >> entries in property order; a lookup obj[key] also  *)
(* sees what Object.prototype defines.                                     *)

Keys(obj) == [k \in 1..Len(obj) |-> obj[k][1]]

HasOwn(obj, key) == \E k \in 1..Len(obj) : obj[k][1] = key

Own(obj, key) == obj[CHOOSE k \in 1..Len(obj) : obj[k][1] = key][2]

\* the properties every object literal inherits whose names a lower-cased
\* token can spell, with the text String() gives for them
ObjectPrototype ==
    << << "constructor", "function Object() { [native code] }" >>,
       << "__proto__", "[object Object]" >> >>

\* does obj[key] give a value other than undefined
Has(obj, key) == HasOwn(obj, key) \/ HasOwn(ObjectPrototype, key)

\* obj[key], where it is not undefined
Get(obj, key) == IF HasOwn(obj, key) THEN Own(obj, key) ELSE Own(ObjectPrototype, key)

\* if (obj[key]): undefined and "" are falsy
Truthy(obj, key) == Has(obj, key) /\ Get(obj, key) # ""

\* { ...a, ...b }: a's entries with b's values where b has the key, then the
\* entries only b has
Merge(a, b) ==
    SubSeq([k \in 1..Len(a) |->
              IF HasOwn(b, a[k][1]) THEN << a[k][1], Own(b, a[k][1]) >> ELSE a[k]], 1, Len(a))
    \o SelectSeq(b, LAMBDA e : ~HasOwn(a, e[1]))

\* the built-in word bank: slang and misspellings with their corrected forms
WORD_BANK ==
    << << "wideo", "video" >>, << "gud", "good" >>, << "plz", "please" >> >>

-----------------------------------------------------------------------------
(* normalizeWord, findPhoneticMatch (offlineService.ts 506-625)            *)

PHONETIC_REPLACEMENTS ==
    << << Lit("v"), "w" >>,
       << Lit("ph"), "f" >>, << Lit("th"), "d" >>, << Lit("bh"), "b" >>,
       << Lit("dh"), "d" >>, << Lit("gh"), "g" >>, << Lit("kh"), "k" >>,
       << Lit("sh"), "s" >>, << Lit("ch"), "c" >>,
       << Lit("z"), "j" >>,
       << Lit("ee"), "i" >>, << Lit("oo"), "u" >>, << Lit("aa"), "a" >>,
       << Lit("ai"), "e" >>, << Lit("au"), "o" >>,
       << Seq_(<< Lit("h"), EOS >>), "" >>, << Seq_(<< Lit("a"), EOS >>), "" >>,
       << Lit("y"), "j" >> >>

PHONETIC_WORD_MAP ==
    << << "bill", "bil" >>, << "school", "skul" >>, << "cool", "kul" >>, << "fool", "ful" >>,
       << "usko", "usko" >>, << "mujhe", "mujhe" >>,
       << "hai", "he" >>, << "hain", "hen" >>, << "ho", "ho" >>, << "hoon", "hun" >>,
       << "main", "men" >>, << "mein", "men" >>, << "mai", "me" >>, << "tum", "tum" >>,
       << "aap", "ap" >>, << "woh", "wo" >>, << "yeh", "ye" >> >>

\* /[.,\/#!$%\^&\*;:{}=\-_`~()\[\]"'?]/g
PunctuationRe ==
    Set({".", ",", "/", "#", "!", "$", "%", "^", "&", "*", ";", ":", "{", "}", "=", "-",
         "_", "`", "~", "(", ")", "[", "]", "\"", "'", "?"})

normalizeWord(word) ==
    IF word = "" THEN ""
    ELSE Let(replace(toLowerCase(word), PunctuationRe, ""),
             LAMBDA clean :
                IF Truthy(PHONETIC_WORD_MAP, clean) THEN Get(PHONETIC_WORD_MAP, clean)
                ELSE ReplaceEach(clean, PHONETIC_REPLACEMENTS, 1))

\* << the key of the first of the entries hits of the dictionary >>, or << >>
\* for null
firstKey(dictionary, hits) ==
    IF hits = {} THEN << >> ELSE << dictionary[Min(hits)][1] >>

\* a scan that keeps the last key that matches
findLastPhoneticMatch(word, dictionary) ==
    Let(normalizeWord(word),
        LAMBDA normalizedInput :
            Let({ k \in 1..Len(dictionary) : normalizeWord(dictionary[k][1]) = normalizedInput },
                LAMBDA hits : IF hits = {} THEN << >> ELSE << dictionary[Max(hits)][1] >>))

findPhoneticMatch(word, dictionary) ==
    Let(normalizeWord(word),
        LAMBDA normalizedInput :
            firstKey(dictionary,
                     { k \in 1..Len(dictionary) :
                          normalizeWord(dictionary[k][1]) = normalizedInput }))

-----------------------------------------------------------------------------
(* applyWordBank (offlineService.ts 99-129)                                *)

\* /^[a-zA-Z]+$/.test(token)
IsAlphabetic(token) ==
    Len(token) > 0 /\ \A i \in 1..Len(token) : Char(token, i) \in Letters

\* the callback of map, the object WORD_BANK being bank
correctTokenIn(bank, token, customBank, mergedBank) ==
    Let(toLowerCase(token),
        LAMBDA lower :
            IF Truthy(customBank, lower) THEN Get(customBank, lower)
            ELSE IF Truthy(bank, lower) THEN Get(bank, lower)
            ELSE IF Len(token) > 2 /\ IsAlphabetic(token)
                 THEN Let(findPhoneticMatch(lower, mergedBank),
                          LAMBDA phoneticKey :
                             IF phoneticKey # << >> /\ phoneticKey[1] # ""
                             THEN Get(mergedBank, phoneticKey[1])
                             ELSE token)
                 ELSE token)

correctToken(token, customBank, mergedBank) ==
    correctTokenIn(WORD_BANK, token, customBank, mergedBank)

correctTokens(tokens, customBank, mergedBank) ==
    join([k \in 1..Len(tokens) |-> correctToken(tokens[k], customBank, mergedBank)], "")

\* Object.assign(WORD_BANK, customBank): the entries of customBank are written
\* into the built-in bank, which is the merged view
assign(bank, customBank) ==
    [ mergedBank |-> Merge(bank, customBank),
      bank       |-> Merge(bank, customBank),
      customBank |-> customBank ]

\* { ...WORD_BANK, ...customBank }: the merged view is a new object, and the
\* two objects it is made from are as they were
spread(bank, customBank) ==
    [ mergedBank |-> Merge(bank, customBank),
      bank       |-> bank,
      customBank |-> customBank ]

\* applyWordBank(text, customBank), the object WORD_BANK being bank: the text
\* returned and the objects after the call
applyWordBankIn(bank, text, customBank) ==
    Let(spread(bank, customBank),
        LAMBDA banks :
            Let(split(text, WB),
                LAMBDA tokens :
                    [ text       |-> join([k \in 1..Len(tokens) |->
                                              correctTokenIn(banks.bank, tokens[k],
                                                             banks.customBank,
                                                             banks.mergedBank)], ""),
                      bank       |-> banks.bank,
                      customBank |-> banks.customBank ]))

applyWordBank(text, customBank) == applyWordBankIn(WORD_BANK, text, customBank).text

-----------------------------------------------------------------------------
(* Inverse text normalization (offlineService.ts 349-489)                  *)

\* a match of pre(grp)post at position p as << start of the group, end of the
\* group, end of the match >>, or << >>; the first in backtracking order
GroupAt(e0, grps, posts) ==
    LET ok == { j \in 1..Len(grps) : posts[j] # << >> }
    IN  IF ok = {} THEN << >> ELSE << e0, grps[Min(ok)], posts[Min(ok)][1] >>

\* for the end e0 of pre: the first end of grp that post can follow
GroupPick(post, s, e0, grps) ==
    Let(SubSeq([j \in 1..Len(grps) |-> Ends(post, s, grps[j])], 1, Len(grps)),
        LAMBDA posts : GroupAt(e0, grps, posts))

FirstHit(tries) ==
    LET hit == { k \in 1..Len(tries) : tries[k] # << >> }
    IN  IF hit = {} THEN << >> ELSE tries[Min(hit)]

MatchGroupFrom(grp, post, s, pres) ==
    Let(SubSeq([k \in 1..Len(pres) |->
                  Let(Ends(grp, s, pres[k]), LAMBDA grps : GroupPick(post, s, pres[k], grps))],
               1, Len(pres)),
        LAMBDA tries : FirstHit(tries))

MatchGroup(pre, grp, post, s, p) ==
    Let(Ends(pre, s, p), LAMBDA pres : MatchGroupFrom(grp, post, s, pres))

\* GetSubstitution for a template that uses $$ and $1
RECURSIVE Substitute(_, _, _)
Substitute(template, group1, i) ==
    IF i > Len(template) THEN ""
    ELSE IF Char(template, i) = "$" /\ i < Len(template) /\ Char(template, i + 1) = "$"
         THEN "$" \o Substitute(template, group1, i + 2)
    ELSE IF Char(template, i) = "$" /\ i < Len(template) /\ Char(template, i + 1) = "1"
         THEN group1 \o Substitute(template, group1, i + 2)
    ELSE Char(template, i) \o Substitute(template, group1, i + 1)

\* the matches ms of the table G replaced by the template filled with group 1
ReplaceCaptured(s, template, G, ms) ==
    ReplaceMatches(s, ms,
        [k \in 1..Len(ms) |->
            Substitute(template, SubSeq(s, G[ms[k][1] + 1][1] + 1, G[ms[k][1] + 1][2]), 1)])

ReplaceGroups(s, template, G) ==
    Let(SubSeq([k \in 1..(Len(s) + 1) |-> IF G[k] = << >> THEN -1 ELSE G[k][3]],
               1, Len(s) + 1),
        LAMBDA M : Let(MatchesFrom(M, Len(s), 0),
                       LAMBDA ms : ReplaceCaptured(s, template, G, ms)))

groupsOver(s, pre, grp, post, at) ==
    SubSeq([k \in 1..(Len(s) + 1) |->
                IF k - 1 \in at THEN MatchGroup(pre, grp, post, s, k - 1) ELSE << >>],
           1, Len(s) + 1)

\* String.prototype.replace(/pre(grp)post/g, template)
replaceGroup(s, pre, grp, post, template) ==
    Let(<< s, pre, grp, post >>,
        LAMBDA a :
            Let(Candidates(Seq_(<< a[2], a[3], a[4] >>), a[1]),
                LAMBDA at :
                    Let(groupsOver(a[1], a[2], a[3], a[4], at),
                        LAMBDA G : ReplaceGroups(a[1], template, G))))

CURRENCY_WORDS ==
    << << "rupees", "₹" >>, << "rupee", "₹" >>, << "rs", "₹" >>, << "rs.", "₹" >>,
       << "inr", "₹" >>, << "dollars", "$" >>, << "dollar", "$" >>, << "usd", "$" >> >>

\* a table word placed in the source of a regular expression under flags gi:
\* '.' is the any-character atom there, a letter matches in both cases
WordPattern(word) ==
    Seq_(Tuple([i \in 1..Len(word) |->
                  IF Char(word, i) = "." THEN Dot ELSE Set(BothCases(Char(word, i)))]))

Empty == Seq_(<< >>)

\* (\d+(?:[\.\,]\d+)?)
NumberRe == Seq_(<< Plus(Set(Digits)), Opt(Seq_(<< Set({".", ","}), Plus(Set(Digits)) >>)) >>)

\* the two replacements of one table entry, from text on
currencyPass(text, word, symbol) ==
    Let(replaceGroup(text, Empty, NumberRe, Seq_(<< Star(WS), WordPattern(word) >>),
                     symbol \o "$1"),
        LAMBDA r1 :
            replaceGroup(r1, Seq_(<< WordPattern(word), Star(WS) >>), NumberRe, Empty,
                         symbol \o "$1"))

RECURSIVE currencyLoop(_, _)
currencyLoop(text, k) ==
    IF k > Len(CURRENCY_WORDS) THEN text
    ELSE Let(currencyPass(text, CURRENCY_WORDS[k][1], CURRENCY_WORDS[k][2]),
             LAMBDA next : currencyLoop(next, k + 1))

normalizeCurrency(text) == Let(text, LAMBDA t : currencyLoop(t, 1))

NUMBER_WORDS ==
    << << "zero", "0" >>, << "one", "1" >>, << "two", "2" >>, << "three", "3" >>,
       << "four", "4" >>, << "five", "5" >>, << "six", "6" >>, << "seven", "7" >>,
       << "eight", "8" >>, << "nine", "9" >>, << "ten", "10" >>, << "eleven", "11" >>,
       << "twelve", "12" >>, << "thirteen", "13" >>, << "fourteen", "14" >>,
       << "fifteen", "15" >>, << "sixteen", "16" >>, << "seventeen", "17" >>,
       << "eighteen", "18" >>, << "nineteen", "19" >>, << "twenty", "20" >>,
       << "thirty", "30" >>, << "forty", "40" >>, << "fifty", "50" >>, << "sixty", "60" >>,
       << "seventy", "70" >>, << "eighty", "80" >>, << "ninety", "90" >>,
       << "hundred", "100" >>, << "thousand", "1000" >>, << "lakh", "100000" >>,
       << "crore", "10000000" >>,
       << "ek", "1" >>, << "do", "2" >>, << "teen", "3" >>, << "char", "4" >>,
       << "paanch", "5" >>, << "chhe", "6" >>, << "saat", "7" >>, << "aath", "8" >>,
       << "nau", "9" >>, << "das", "10" >>, << "sau", "100" >>, << "hazaar", "1000" >>,
       << "hazar", "1000" >> >>

SCHWA_DELETIONS ==
    << << "rama", "Ram" >>, << "krishna", "Krishna" >>, << "shiva", "Shiv" >>,
       << "ganga", "Ganga" >>, << "karna", "Karan" >>, << "arjuna", "Arjun" >>,
       << "hanumana", "Hanuman" >>, << "ravana", "Ravan" >>,
       << "mohana", "Mohan" >>, << "lakshmana", "Lakshman" >>, << "bharata", "Bharat" >>,
       << "gopala", "Gopal" >>, << "narayana", "Narayan" >>,
       << "mathura", "Mathura" >>, << "ayodhya", "Ayodhya" >> >>

\* new RegExp(`\\b${word}\\b`, 'gi') for every entry of a table, with its replacement
wholeWordSteps(table) ==
    [k \in 1..Len(table) |-> << Seq_(<< WB, WordPattern(table[k][1]), WB >>), table[k][2] >>]

numberWordsToDigits(text) == ReplaceEach(text, wholeWordSteps(NUMBER_WORDS), 1)

applySchwaRules(text) == ReplaceEach(text, wholeWordSteps(SCHWA_DELETIONS), 1)

\* String.prototype.includes
includes(s, sub) ==
    \E i \in 0..(Len(s) - Len(sub)) : SubSeq(s, i + 1, i + Len(sub)) = sub

\* a destructured option with its default
Option(options, name, default) ==
    IF name \in DOMAIN options THEN options[name] ELSE default

NoOptions == << >>

\* applyITN with number words converted by default
applyITNAllOn(text, options) ==
    LET doCurrency == Option(options, "normalizeCurrency", TRUE)
        doNumbers  == Option(options, "convertNumberWords", TRUE)
        doSchwa    == Option(options, "applySchwa", TRUE)
    IN  Let(IF doCurrency THEN normalizeCurrency(text) ELSE text,
            LAMBDA r1 :
                Let(IF doNumbers THEN numberWordsToDigits(r1) ELSE r1,
                    LAMBDA r2 : IF doSchwa THEN applySchwaRules(r2) ELSE r2))

applyITN(text, options) ==
    LET doCurrency == Option(options, "normalizeCurrency", TRUE)
        doNumbers  == Option(options, "convertNumberWords", FALSE)
        doSchwa    == Option(options, "applySchwa", TRUE)
    IN  Let(IF doCurrency THEN normalizeCurrency(text) ELSE text,
            LAMBDA r1 :
                Let(IF doNumbers THEN numberWordsToDigits(r1) ELSE r1,
                    LAMBDA r2 : IF doSchwa THEN applySchwaRules(r2) ELSE r2))

-----------------------------------------------------------------------------
(* Diff.diffWords of the npm package diff (called at offlineService.ts    *)
(* 191).  The text is cut into tokens and the result is a shortest edit    *)
(* script over the tokens (it keeps a longest common subsequence), given   *)
(* as change objects: consecutive tokens of one kind make one part, and in *)
(* a run of changes the removed part comes before the added part.  Which   *)
(* of several shortest scripts is returned is left open: every one of them *)
(* is a possible result.  The releases of the package tokenize in two      *)
(* ways, and the import does not say which one is installed:               *)
(*   - white space runs are tokens of their own, equal to each other, and  *)
(*     a run of punctuation other than brackets and quotes is one token;   *)
(*   - white space is not a token (it stays with the token it follows and  *)
(*     is not compared) and every punctuation character is a token.        *)

\* the characters the first tokenizer always keeps single
DiffSingles == {"(", ")", "[", "]", "{", "}", "'", "\"", "\r", "\n"}

\* a token when white space runs are tokens
DiffTokenSpacedRe ==
    Alt(<< Plus(Set(WordChars)),
           Plus(Set(WhiteSpace \ LineTerminators)),
           Set(DiffSingles),
           Plus(NotSet(WordChars \cup WhiteSpace \cup DiffSingles)) >>)

\* a token when white space is not a token
DiffTokenRe == Alt(<< Plus(Set(WordChars)), NotSet(WordChars \cup WhiteSpace) >>)

\* the tokens at the matches ms, each with whether uncompared white space
\* precedes it
tokensAt(text, ms) ==
    SubSeq([k \in 1..Len(ms) |->
              [ tok |-> SubSeq(text, ms[k][1] + 1, ms[k][2]),
                sp  |-> ms[k][1] > (IF k = 1 THEN 0 ELSE ms[k - 1][2]) ]], 1, Len(ms))

diffTokens(text, spaced) ==
    Let(text, LAMBDA str :
        Let(Matches(IF spaced THEN DiffTokenSpacedRe ELSE DiffTokenRe, str),
            LAMBDA ms : tokensAt(str, ms)))

\* the cell j of row i of the table of the lengths of the longest common
\* subsequences of a[i..] and b[j..], put before the cells rest after it
lcsCell(a, b, i, below, j, rest) ==
    << IF a[i].tok = b[j].tok THEN 1 + below[j + 1]
       ELSE IF below[j] >= rest[1] THEN below[j] ELSE rest[1] >> \o rest

\* row i of the table from the row below it: cells j..Len(b)+1
RECURSIVE LcsRow(_, _, _, _, _)
LcsRow(a, b, i, below, j) ==
    IF j > Len(b) THEN << 0 >>
    ELSE Let(LcsRow(a, b, i, below, j + 1), LAMBDA rest : lcsCell(a, b, i, below, j, rest))

\* rows i..Len(a)+1 of the table
lcsAddRow(a, b, i, rows) == << LcsRow(a, b, i, rows[1], 1) >> \o rows

RECURSIVE LcsRows(_, _, _)
LcsRows(a, b, i) ==
    IF i > Len(a) THEN << SubSeq([j \in 1..(Len(b) + 1) |-> 0], 1, Len(b) + 1) >>
    ELSE Let(LcsRows(a, b, i + 1), LAMBDA rows : lcsAddRow(a, b, i, rows))

\* every shortest edit script of a[i..] into b[j..] as a sequence of "=", "-"
\* and "+", a removal never directly after an addition
RECURSIVE EditScripts(_, _, _, _, _, _)
EditScripts(a, b, L, i, j, prev) ==
    IF i > Len(a) /\ j > Len(b) THEN { << >> }
    ELSE
      (IF i <= Len(a) /\ j <= Len(b) /\ a[i].tok = b[j].tok
       THEN { << "=" >> \o t : t \in EditScripts(a, b, L, i + 1, j + 1, "=") }
       ELSE {})
      \cup
      (IF i <= Len(a) /\ L[i + 1][j] = L[i][j] /\ prev # "+"
       THEN { << "-" >> \o t : t \in EditScripts(a, b, L, i + 1, j, "-") }
       ELSE {})
      \cup
      (IF j <= Len(b) /\ L[i][j + 1] = L[i][j]
       THEN { << "+" >> \o t : t \in EditScripts(a, b, L, i, j + 1, "+") }
       ELSE {})

\* the value of a part: its tokens with the white space between them
partValue(tokens) ==
    join([k \in 1..Len(tokens) |->
            (IF k > 1 /\ tokens[k].sp THEN " " ELSE "") \o tokens[k].tok], "")

\* the length of the run of one kind that starts at script[k]
runLength(script, k) ==
    LET stop == { x \in k..Len(script) : script[x] # script[k] }
    IN  (IF stop = {} THEN Len(script) + 1 ELSE Min(stop)) - k

\* the change object of n tokens of kind op, a[i..] and b[j..] being left
changeObject(a, b, op, n, i, j) ==
    [ added   |-> op = "+",
      removed |-> op = "-",
      value   |-> IF op = "-" THEN partValue(SubSeq(a, i, i + n - 1))
                  ELSE partValue(SubSeq(b, j, j + n - 1)) ]

\* the change objects of one edit script
RECURSIVE scriptParts(_, _, _, _, _, _)
RECURSIVE scriptRun(_, _, _, _, _, _, _)
scriptParts(a, b, script, k, i, j) ==
    IF k > Len(script) THEN << >>
    ELSE Let(runLength(script, k), LAMBDA n : scriptRun(a, b, script, k, i, j, n))

scriptRun(a, b, script, k, i, j, n) ==
    << changeObject(a, b, script[k], n, i, j) >>
    \o Let(<< IF script[k] = "+" THEN i ELSE i + n, IF script[k] = "-" THEN j ELSE j + n >>,
           LAMBDA at : scriptParts(a, b, script, k + n, at[1], at[2]))

\* the results of one tokenizer
diffScripts(a, b, L) ==
    { scriptParts(a, b, sc, 1, 1, 1) : sc \in EditScripts(a, b, L, 1, 1, "=") }

diffTokenized(a, b) ==
    Let(<< a, b >>,
        LAMBDA ab : Let(LcsRows(ab[1], ab[2], 1), LAMBDA L : diffScripts(ab[1], ab[2], L)))

\* the results Diff.diffWords(oldStr, newStr) can give
diffWords(oldStr, newStr) ==
    UNION { diffTokenized(diffTokens(oldStr, spaced), diffTokens(newStr, spaced)) :
                spaced \in BOOLEAN }

-----------------------------------------------------------------------------
(* alignSrtOffline (offlineService.ts 138-251).  The call returns a        *)
(* pending promise and schedules the callback of setTimeout; the callback  *)
(* runs its numbered steps in order, pc naming the step it is at, and      *)
(* settles the promise exactly when it ends.                               *)

EmptySrtError == "Source SRT file content is empty."

EmptyScriptError == "Correct Script content is empty."

NoSubtitlesError ==
    "No valid subtitles found. Please check if the source file is a valid SRT with timestamps."

NoUsableTextError ==
    "Script contains no usable text after cleaning. It might only contain metadata, scene headers, or timestamps which are automatically removed."

\* an emptiness test that forgets trim(): white space counts as content
isBlankUntrimmed(content) == content = ""

\* !content || !content.trim()
isBlank(content) == content = "" \/ trim(content) = ""

\* text.match(/\S+/g) || []
wordsOf(text) == matchAll(text, NonSpaceRe)

\* the entries of srtWordMap for the words of block idx
blockWords(words, idx) ==
    Let(words, LAMBDA ws : Tuple([n \in 1..Len(ws) |-> [word |-> ws[n], blockIndex |-> idx]]))

\* srtWordMap after the two nested forEach of step 3
buildWordMap(blocks) ==
    Let(Tuple([k \in 1..Len(blocks) |-> blockWords(wordsOf(blocks[k].text), k - 1)]),
        LAMBDA maps : Flatten(maps, 1, Len(maps)))

\* the inputs of the calls: tracks of up to MaxBlocks well-formed blocks over
\* the caption texts, tracks no block of which has three lines, blank tracks
MaxBlocks == 2

DigitSeq == "0123456789"

TimeRange(k) ==
    "00:00:0" \o Char(DigitSeq, 2 * k - 1) \o ",000 --> 00:00:0"
        \o Char(DigitSeq, 2 * k + 1) \o ",000"

CaptionTexts == << "Hello sir how are you", "sir, ok wideo", "[music]", "fine" >>

\* block k of the track that starts with the text first: its number, its
\* time range and the next of the texts
TrackBlock(k, first) ==
    Char(DigitSeq, k + 1) \o "\n" \o TimeRange(k) \o "\n"
        \o CaptionTexts[((first + k - 2) % Len(CaptionTexts)) + 1]

\* a well-formed track of n blocks
Track(n, first) == join([k \in 1..n |-> TrackBlock(k, first)], "\n\n")

Captions ==
    { Track(n, first) : n \in 1..MaxBlocks, first \in 1..Len(CaptionTexts) }
    \cup { "", "  \n", "Hello sir", "1\nHello sir\n\n2\nhow are you" }

Scripts ==
    { "Hello sir, how r u", "sir ok", "rupees fine", "John: video is good",
      "[Shot 1]\nINT. ROOM - DAY\nhttp://a.b", "", " \n " }

CustomBanks == { << >>, << << "ok", "okay" >> >> }

\* the arguments of the call
args == << srtContent, scriptContent, customWordBank >>

\* the locals of step 5
walk == << newBlockTexts, currentBlockIndex, srtWordCursor, partIdx, partWords, wordIdx >>

\* the variables of the callers of the service
callers == << wordBank, calls, app >>

\* the variables of the functions checked on their own, and of the callers
pure == << input, output, callers >>

Reject(message) ==
    /\ settled' = "rejected"
    /\ error' = << message >>
    /\ pc' = "done"

\* alignSrtOffline(srtContent, scriptContent, customWordBank): new Promise, setTimeout
Call ==
    /\ pc = "idle"
    /\ \E srt \in Captions, script \in Scripts, bank \in CustomBanks :
          /\ srtContent' = srt
          /\ scriptContent' = script
          /\ customWordBank' = bank
    /\ settled' = "pending"
    /\ pc' = "validate"
    /\ UNCHANGED << srtBlocks, scriptWords, srtWordMap, diffs, walk, result, error, pure >>

\* the timer fires; validation 1
Validate ==
    /\ pc = "validate"
    /\ IF isBlank(srtContent) THEN Reject(EmptySrtError)
       ELSE IF isBlank(scriptContent) THEN Reject(EmptyScriptError)
       ELSE pc' = "parse" /\ UNCHANGED << settled, error >>
    /\ UNCHANGED << args, srtBlocks, scriptWords, srtWordMap, diffs, walk, result, pure >>

\* steps 0 and 1, validation 2
Parse ==
    /\ pc = "parse"
    /\ \E blocks \in { parseSrt(applyWordBank(srtContent, customWordBank)) } :
          IF Len(blocks) = 0
          THEN Reject(NoSubtitlesError) /\ UNCHANGED srtBlocks
          ELSE srtBlocks' = blocks /\ pc' = "clean" /\ UNCHANGED << settled, error >>
    /\ UNCHANGED << args, scriptWords, srtWordMap, diffs, walk, result, pure >>

\* step 2 without validation 3: a script with no words goes on to the diff
CleanUnchecked ==
    /\ pc = "clean"
    /\ scriptWords' = wordsOf(cleanText(scriptContent))
    /\ pc' = "diff"
    /\ UNCHANGED << args, srtBlocks, srtWordMap, diffs, walk, settled, result, error, pure >>

\* step 2, validation 3
Clean ==
    /\ pc = "clean"
    /\ \E words \in { wordsOf(cleanText(scriptContent)) } :
          IF Len(words) = 0
          THEN Reject(NoUsableTextError) /\ UNCHANGED scriptWords
          ELSE scriptWords' = words /\ pc' = "diff" /\ UNCHANGED << settled, error >>
    /\ UNCHANGED << args, srtBlocks, srtWordMap, diffs, walk, result, pure >>

\* steps 3 and 4 and the declarations of step 5
Diff ==
    /\ pc = "diff"
    /\ \E map \in { buildWordMap(srtBlocks) } :
          /\ srtWordMap' = map
          /\ diffs' \in diffWords(join([k \in 1..Len(map) |-> map[k].word], " "),
                                  join(scriptWords, " "))
    /\ newBlockTexts' = [k \in 1..Len(srtBlocks) |-> << >>]
    /\ currentBlockIndex' = 0
    /\ srtWordCursor' = 0
    /\ partIdx' = 1
    /\ wordIdx' = 0
    /\ pc' = "walk"
    /\ UNCHANGED << args, srtBlocks, scriptWords, partWords, settled, result, error, pure >>

\* the part diffs.forEach is at
part == diffs[partIdx]

\* a push whose guard is off by one: the last block takes no word
pushBelowLast(texts, index, w) ==
    IF index + 1 < Len(texts)
    THEN [texts EXCEPT ![index + 1] = Append(@, w)]
    ELSE texts

\* newBlockTexts[currentBlockIndex].push(w), under its guard
push(texts, index, w) ==
    IF index < Len(texts)
    THEN [texts EXCEPT ![index + 1] = Append(@, w)]
    ELSE texts

\* a cursor without the guard: past the end it goes on counting, and the
\* current block falls back to the first
advanceUnchecked ==
    /\ currentBlockIndex' = IF srtWordCursor < Len(srtWordMap)
                            THEN srtWordMap[srtWordCursor + 1].blockIndex ELSE 0
    /\ srtWordCursor' = srtWordCursor + 1

\* the cursor moves over one caption word, under its guard
advance ==
    IF srtWordCursor < Len(srtWordMap)
    THEN /\ currentBlockIndex' = srtWordMap[srtWordCursor + 1].blockIndex
         /\ srtWordCursor' = srtWordCursor + 1
    ELSE UNCHANGED << currentBlockIndex, srtWordCursor >>

\* diffs.forEach calls its callback on the next part: partWords
EnterPart ==
    /\ pc = "walk" /\ partIdx <= Len(diffs) /\ wordIdx = 0
    /\ partWords' = wordsOf(part.value)
    /\ wordIdx' = 1
    /\ UNCHANGED << pc, args, srtBlocks, scriptWords, srtWordMap, diffs, newBlockTexts,
                    currentBlockIndex, srtWordCursor, partIdx, settled, result, error, pure >>

\* partWords.forEach is at the word wordIdx
AtWord == pc = "walk" /\ wordIdx >= 1 /\ wordIdx <= Len(partWords)

\* a step for an added word that consumes a caption word as well
AddedWordConsuming ==
    /\ AtWord
    /\ part.added
    /\ advance
    /\ newBlockTexts' = push(newBlockTexts, currentBlockIndex', partWords[wordIdx])
    /\ wordIdx' = wordIdx + 1
    /\ UNCHANGED << pc, args, srtBlocks, scriptWords, srtWordMap, diffs, partIdx, partWords,
                    settled, result, error, pure >>

\* one word of a part that is added
AddedWord ==
    /\ AtWord
    /\ part.added
    /\ newBlockTexts' = push(newBlockTexts, currentBlockIndex, partWords[wordIdx])
    /\ wordIdx' = wordIdx + 1
    /\ UNCHANGED << pc, args, srtBlocks, scriptWords, srtWordMap, diffs, currentBlockIndex,
                    srtWordCursor, partIdx, partWords, settled, result, error, pure >>

\* one word of a part that is removed
RemovedWord ==
    /\ AtWord
    /\ ~part.added /\ part.removed
    /\ advance
    /\ wordIdx' = wordIdx + 1
    /\ UNCHANGED << pc, args, srtBlocks, scriptWords, srtWordMap, diffs, newBlockTexts,
                    partIdx, partWords, settled, result, error, pure >>

\* one word of a part that is unchanged
UnchangedWord ==
    /\ AtWord
    /\ ~part.added /\ ~part.removed
    /\ advance
    /\ newBlockTexts' = push(newBlockTexts, currentBlockIndex', partWords[wordIdx])
    /\ wordIdx' = wordIdx + 1
    /\ UNCHANGED << pc, args, srtBlocks, scriptWords, srtWordMap, diffs, partIdx, partWords,
                    settled, result, error, pure >>

\* the callback returns: the words of the part are done
LeavePart ==
    /\ pc = "walk" /\ wordIdx >= 1 /\ wordIdx > Len(partWords)
    /\ partIdx' = partIdx + 1
    /\ wordIdx' = 0
    /\ UNCHANGED << pc, args, srtBlocks, scriptWords, srtWordMap, diffs, newBlockTexts,
                    currentBlockIndex, srtWordCursor, partWords, settled, result, error,
                    pure >>

\* step 6: block.text = words.join(' ')
format(blocks, texts) ==
    SubSeq([k \in 1..Len(blocks) |-> [blocks[k] EXCEPT !.text = join(texts[k], " ")]],
           1, Len(blocks))

\* a last step that raises an error: the catch rejects
FinishWithError ==
    /\ pc = "walk" /\ partIdx > Len(diffs)
    /\ Reject("Offline Alignment Error")
    /\ UNCHANGED << args, srtBlocks, scriptWords, srtWordMap, diffs, walk, result, pure >>

\* steps 6 and 7, resolve(finalResult)
Finish ==
    /\ pc = "walk" /\ partIdx > Len(diffs)
    /\ srtBlocks' = format(srtBlocks, newBlockTexts)
    /\ result' = << applyITN(stringifySrt(srtBlocks'), NoOptions) >>
    /\ settled' = "resolved"
    /\ pc' = "done"
    /\ UNCHANGED << args, scriptWords, srtWordMap, diffs, walk, error, pure >>

\* the variables of alignSrtOffline before any call
\* the state of App when it mounts with no saved session: the useState defaults
\* (null is << >>, a file is << its name >>)
Mounted ==
    [ srtFile          |-> << >>,
      srtContent       |-> "",
      scriptContent    |-> "",
      correctedSrt     |-> "",
      originalOutput   |-> "",
      status           |-> "IDLE",
      errorMsg         |-> << >>,
      isEdited         |-> FALSE,
      findText         |-> "",
      replaceText      |-> "",
      matchCase        |-> FALSE,
      customDictionary |-> << >> ]

NotCalled ==
    /\ wordBank = WORD_BANK
    /\ calls = << >>
    /\ app = Mounted
    /\ srtContent = ""
    /\ scriptContent = ""
    /\ customWordBank = << >>
    /\ srtBlocks = << >>
    /\ scriptWords = << >>
    /\ srtWordMap = << >>
    /\ diffs = << >>
    /\ newBlockTexts = << >>
    /\ currentBlockIndex = 0
    /\ srtWordCursor = 0
    /\ partIdx = 1
    /\ partWords = << >>
    /\ wordIdx = 0
    /\ settled = "none"
    /\ result = << >>
    /\ error = << >>

Init ==
    /\ pc = "idle"
    /\ NotCalled
    /\ input = << >>
    /\ output = << >>

Next ==
    \/ Call
    \/ Validate
    \/ Parse
    \/ Clean
    \/ Diff
    \/ EnterPart
    \/ AddedWord
    \/ RemovedWord
    \/ UnchangedWord
    \/ LeavePart
    \/ Finish

Spec == Init /\ [][Next]_vars

-----------------------------------------------------------------------------
(* The functions checked on their own: pc says what has been applied to    *)
(* input, output holds the values returned so far.                         *)

\* the variables of alignSrtOffline, which these functions leave alone
call == << args, srtBlocks, scriptWords, srtWordMap, diffs, walk, settled, result, error,
           callers >>

\* cleanText: texts of one or two lines, a line made of what may precede the
\* dialogue and of the dialogue or the non-dialogue content itself
CleanPrefixes == { "", " ", "[x] ", "(a) ", "A: ", "> B - ", "http://u.v " }

CleanBodies ==
    { "INT. foo", "B: c", "hello there", "Unknown", "unknow x", "12", "CUT TO: y",
      "www.a.b" }

CleanSuffixes == { "", "\nnext line" }

CleanTexts ==
    { prefix \o body \o suffix :
        prefix \in CleanPrefixes, body \in CleanBodies, suffix \in CleanSuffixes }

InitClean ==
    /\ pc = "text"
    /\ NotCalled
    /\ input \in CleanTexts
    /\ output = << >>

\* cleanText(input)
CleanOnce ==
    /\ pc = "text"
    /\ output' = << cleanText(input) >>
    /\ pc' = "cleaned"
    /\ UNCHANGED << input, call >>

\* cleanText(cleanText(input))
CleanAgain ==
    /\ pc = "cleaned"
    /\ output' = Append(output, cleanText(output[1]))
    /\ pc' = "cleaned again"
    /\ UNCHANGED << input, call >>

NextClean ==
    \/ CleanOnce
    \/ CleanAgain

SpecClean == InitClean /\ [][NextClean]_vars

\* normalizeCurrency: a number and a word of the table, in either order
CurrencyNumbers == { "5", "10", "100", "2.5", "1,000" }

CurrencyInputs ==
    [ number : CurrencyNumbers, word : 1..Len(CURRENCY_WORDS), wordFirst : BOOLEAN ]

CurrencyText(in) ==
    IF in.wordFirst THEN CURRENCY_WORDS[in.word][1] \o " " \o in.number
    ELSE in.number \o " " \o CURRENCY_WORDS[in.word][1]

InitCurrency ==
    /\ pc = "text"
    /\ NotCalled
    /\ input \in CurrencyInputs
    /\ output = << >>

\* normalizeCurrency(text)
Normalize ==
    /\ pc = "text"
    /\ output' = << normalizeCurrency(CurrencyText(input)) >>
    /\ pc' = "normalized"
    /\ UNCHANGED << input, call >>

NextCurrency ==
    \/ Normalize

SpecCurrency == InitCurrency /\ [][NextCurrency]_vars

\* applyWordBank: a key of the built-in bank, spelt in lower case, in upper
\* case or capitalised, alone or before punctuation, and an override that
\* gives the key another value
OverrideValues == { "", "fixed", "Fix It", "0", "x", "ok" }

Spellings == { "lower", "upper", "capital" }

ToUpperChar(c) == IF c \in LowerLetters THEN UpperMap[c] ELSE c

Spelt(key, spelling) ==
    join([i \in 1..Len(key) |->
            IF spelling = "upper" \/ (spelling = "capital" /\ i = 1)
            THEN ToUpperChar(Char(key, i)) ELSE Char(key, i)], "")

WordBankInputs ==
    [ key : 1..Len(WORD_BANK), spelling : Spellings, value : OverrideValues,
      tail : { "", "!" } ]

InitWordBank ==
    /\ pc = "text"
    /\ NotCalled
    /\ input \in WordBankInputs
    /\ output = << >>

\* applyWordBank(token + tail, { [key]: value })
Correct ==
    /\ pc = "text"
    /\ output' = << applyWordBank(Spelt(WORD_BANK[input.key][1], input.spelling) \o input.tail,
                                  << << WORD_BANK[input.key][1], input.value >> >>) >>
    /\ pc' = "corrected"
    /\ UNCHANGED << input, call >>

NextWordBank ==
    \/ Correct

SpecWordBank == InitWordBank /\ [][NextWordBank]_vars

-----------------------------------------------------------------------------
(* The claims about alignSrtOffline, checked under Spec                    *)

\* is s empty or made of white space only
AllWhite(s) == \A i \in 1..Len(s) : Char(s, i) \in WhiteSpace

\* do the lines of a resolved text lay out these blocks: for each block its
\* id line, its time-range line and one text line, a blank line between blocks
LaysOut(lines, blocks) ==
    /\ Len(lines) = 4 * Len(blocks) - 1
    /\ \A k \in 1..Len(blocks) :
          /\ lines[4 * k - 3] = blocks[k].id
          /\ lines[4 * k - 2] = blocks[k].time
          /\ k < Len(blocks) => lines[4 * k] = ""

LaidOut(text, blocks) == Let(split(text, Lit("\n")), LAMBDA lines : LaysOut(lines, blocks))

\* C1: when alignSrtOffline resolves, the resolved text consists of the N
\* blocks the caption track parses to, in their order, and the id line and
\* the time-range line of each are those of the input block, character for
\* character: only the text lines differ.
StructurePreserved ==
    settled = "resolved" =>
        Let(parseSrt(srtContent), LAMBDA blocks : LaidOut(result[1], blocks))

\* the words of the texts of the blocks, in block order
WordsOfBlocks(blocks) ==
    Flatten([k \in 1..Len(blocks) |-> wordsOf(blocks[k].text)], 1, Len(blocks))

\* C2: when alignSrtOffline resolves, the words of the texts of the output
\* blocks, read in block order, are exactly the whitespace-delimited words of
\* the cleaned script in script order (the texts as step 6 formats them, before
\* inverse text normalization rewrites the tokens of its tables).
OutputIsScript ==
    settled = "resolved" => WordsOfBlocks(srtBlocks) = scriptWords

\* has the callback of setTimeout passed validation 1
Validated == pc \notin { "idle", "validate" }

RejectedWith(message) ==
    /\ settled = "rejected"
    /\ error = << message >>
    /\ result = << >>

\* C3: with a caption text that is empty or white space only the promise is
\* rejected with the empty-caption error; with a caption text that is not and a
\* script text that is empty or white space only it is rejected with the
\* empty-script error; in both cases it is never resolved and no result is
\* ever produced.
EmptyInputsRejected ==
    /\ (AllWhite(srtContent) \/ AllWhite(scriptContent)) =>
          settled # "resolved" /\ result = << >>
    /\ (Validated /\ AllWhite(srtContent)) => RejectedWith(EmptySrtError)
    /\ (Validated /\ ~AllWhite(srtContent) /\ AllWhite(scriptContent)) =>
          RejectedWith(EmptyScriptError)

\* a call with a caption and a white-space-only script has been rejected
EmptyScriptRejected ==
    /\ pc = "done"
    /\ ~AllWhite(srtContent)
    /\ scriptContent = " \n "
    /\ RejectedWith(EmptyScriptError)

\* the number of physical lines of a chunk of the track
LineCount(chunk) == 1 + Cardinality({ i \in 1..Len(chunk) : Char(chunk, i) = "\n" })

\* does the text hold no chunk (the stretches that blank lines separate) of at
\* least 3 physical lines
NoThreeLines(chunks) == \A k \in 1..Len(chunks) : LineCount(chunks[k]) < 3

NoBlockIn(text) ==
    Let(split(replace(text, CrLfRe, "\n"), BlankLinesRe), LAMBDA chunks : NoThreeLines(chunks))

\* C4: once settled, a call whose inputs pass validation 1 and whose
\* dictionary-corrected caption text holds no block of at least 3 physical
\* lines is rejected with the no-valid-subtitles error; it is not resolved
\* with an empty result.
NoBlocksRejected ==
    (/\ pc = "done"
     /\ ~AllWhite(srtContent)
     /\ ~AllWhite(scriptContent)
     /\ NoBlockIn(applyWordBank(srtContent, customWordBank)))
    => RejectedWith(NoSubtitlesError)

\* a call with a track of two-line chunks has been rejected
TwoLineChunksRejected ==
    /\ pc = "done"
    /\ srtContent = "1\nHello sir\n\n2\nhow are you"
    /\ scriptContent = "sir ok"
    /\ RejectedWith(NoSubtitlesError)

\* C5: once settled, a call whose caption parsed to blocks and whose script
\* text, though not empty, has no whitespace-delimited token left after
\* cleanText is rejected with the empty-script-after-cleaning error; it does
\* not resolve.
UnusableScriptRejected ==
    (/\ pc = "done"
     /\ Len(srtBlocks) > 0
     /\ ~AllWhite(scriptContent)
     /\ AllWhite(cleanText(scriptContent)))
    => RejectedWith(NoUsableTextError)

\* a call with a script of a shot label, a scene header and a URL has been
\* rejected
SceneHeadersRejected ==
    /\ pc = "done"
    /\ Len(srtBlocks) > 0
    /\ scriptContent = "[Shot 1]\nINT. ROOM - DAY\nhttp://a.b"
    /\ RejectedWith(NoUsableTextError)

\* the words of the parts of the diff of the given kinds, in order
WordsOfParts(parts, kinds) ==
    Flatten([k \in 1..Len(parts) |->
                IF (IF parts[k].added THEN "added"
                    ELSE IF parts[k].removed THEN "removed" ELSE "unchanged") \in kinds
                THEN wordsOf(parts[k].value) ELSE << >>],
            1, Len(parts))

\* C8: the parts of the diff, each value split again into its runs of
\* non-white-space, reconstruct both streams: the words of the unchanged and
\* the removed parts are the caption word stream, the words of the unchanged
\* and the added parts are the script word stream.
DiffReconstructs ==
    (pc = "walk" /\ partIdx = 1 /\ wordIdx = 0) =>
        /\ WordsOfParts(diffs, { "unchanged", "removed" })
              = [k \in 1..Len(srtWordMap) |-> srtWordMap[k].word]
        /\ WordsOfParts(diffs, { "unchanged", "added" }) = scriptWords

\* C9: the caption of the single block 1, 00:00:00,000 --> 00:00:02,000,
\* "Hello sir how are you", aligned with the script "Hello sir, how r u" and
\* an empty override dictionary, resolves to the same block with the text
\* "Hello sir, how r u".
ExampleAligned ==
    (/\ pc = "done"
     /\ srtContent = "1\n00:00:00,000 --> 00:00:02,000\nHello sir how are you"
     /\ scriptContent = "Hello sir, how r u"
     /\ customWordBank = << >>)
    => /\ settled = "resolved"
       /\ result = << "1\n00:00:00,000 --> 00:00:02,000\nHello sir, how r u" >>

-----------------------------------------------------------------------------
(* The claims about the functions checked on their own                     *)

\* C6: for a key of the built-in word bank that the override map gives
\* another value, the empty string included, applyWordBank replaces a token
\* that equals the key, whatever its case, by the value of the override
\* (checked under SpecWordBank).
OverrideWins ==
    pc = "corrected" => output[1] = input.value \o input.tail

\* C7: cleanText is idempotent, cleanText(cleanText(x)) = cleanText(x)
\* (checked under SpecClean).
CleanIdempotent ==
    pc = "cleaned again" => output[2] = output[1]

\* C10: for every word w of the currency table with the symbol s and every
\* number n, normalizeCurrency rewrites "n w" and "w n" to "sn" (checked under
\* SpecCurrency).
CurrencyRewritten ==
    pc = "normalized" => output[1] = CURRENCY_WORDS[input.word][2] \o input.number

-----------------------------------------------------------------------------
(* formatWithIndianCommas (offlineService.ts 329-343), on integers         *)

\* Number.prototype.toString of a natural number
RECURSIVE digitsOf(_)
digitsOf(n) ==
    IF n < 10 THEN Char(DigitSeq, n + 1)
    ELSE digitsOf(n \div 10) \o Char(DigitSeq, (n % 10) + 1)

\* Math.floor(num).toString() of an integer
numberToString(num) == IF num < 0 THEN "-" \o digitsOf(0 - num) ELSE digitsOf(num)

\* the index String.prototype.slice makes of an argument: a negative one
\* counts from the end, and both are clamped to the string
sliceIndex(s, at) == IF at < 0 THEN Max({ Len(s) + at, 0 }) ELSE Min({ at, Len(s) })

\* String.prototype.slice(start, end)
sliceStr(s, start, end) == SubSeq(s, sliceIndex(s, start) + 1, sliceIndex(s, end))

\* String.prototype.slice(start)
sliceFrom(s, start) == SubSeq(s, sliceIndex(s, start) + 1, Len(s))

\* the while loop: chunks of two characters taken from the end of remaining
RECURSIVE commaLoop(_, _)
commaLoop(result_, remaining) ==
    IF Len(remaining) > 0
    THEN commaLoop(sliceFrom(remaining, 0 - 2) \o "," \o result_, sliceStr(remaining, 0, 0 - 2))
    ELSE result_

commasOf(numStr) ==
    IF Len(numStr) <= 3 THEN numStr
    ELSE commaLoop(sliceFrom(numStr, 0 - 3), sliceStr(numStr, 0, 0 - 3))

formatWithIndianCommas(num) == commasOf(numberToString(num))

\* the integers formatted: of 1 to MaxDigits digits, of either sign, the
\* digits counting up, all 9, a 1 before zeros, or 5 and 0 in turn
MaxDigits == 8

RECURSIVE Numeral(_, _)
Numeral(pattern, len) ==
    IF len = 0 THEN 0
    ELSE 10 * Numeral(pattern, len - 1)
         + (CASE pattern = "count" -> len % 10
              [] pattern = "nines" -> 9
              [] pattern = "power" -> IF len = 1 THEN 1 ELSE 0
              [] pattern = "fifty" -> IF len % 2 = 1 THEN 5 ELSE 0)

CommaNumbers ==
    { sign * Numeral(pattern, len) :
        sign \in { 1, 0 - 1 }, pattern \in { "count", "nines", "power", "fifty" },
        len \in 1..MaxDigits }

InitCommas ==
    /\ pc = "number"
    /\ NotCalled
    /\ input \in CommaNumbers
    /\ output = << >>

\* formatWithIndianCommas(num)
FormatCommas ==
    /\ pc = "number"
    /\ output' = << formatWithIndianCommas(input) >>
    /\ pc' = "formatted"
    /\ UNCHANGED << input, call >>

NextCommas ==
    \/ FormatCommas

SpecCommas == InitCommas /\ [][NextCommas]_vars

\* the digits d with a comma before every digit that has 3, 5, 7, ... digits
\* from itself to the end
IndianGrouping(d) ==
    join([i \in 1..Len(d) |->
            (IF i > 1 /\ Len(d) - i + 1 >= 3 /\ (Len(d) - i) % 2 = 0 THEN "," ELSE "")
            \o Char(d, i)], "")

\* C11: formatWithIndianCommas groups the decimal digits of an integer as the
\* last three digits and, leftwards, groups of two, separated by commas (a
\* sign stays before the first digit), so that every group is a non-empty run
\* of digits, removing the commas gives the digits back, and a value of at
\* most three digits has no comma (checked under SpecCommas).
IndianCommas ==
    pc = "formatted" =>
        output[1] = (IF input < 0 THEN "-" ELSE "")
                    \o IndianGrouping(digitsOf(IF input < 0 THEN 0 - input ELSE input))

-----------------------------------------------------------------------------
(* isFuzzyMatch (offlineService.ts 600-606), and the normalizeWord and     *)
(* isFuzzyMatch of utils/phonetics.ts (19-43)                              *)

\* a match that forgets the phonetic comparison
isFuzzyMatchExact(wordA, wordB) ==
    wordA = wordB \/ toLowerCase(wordA) = toLowerCase(wordB)

isFuzzyMatch(wordA, wordB) ==
    IF wordA = wordB THEN TRUE
    ELSE IF toLowerCase(wordA) = toLowerCase(wordB) THEN TRUE
    ELSE normalizeWord(wordA) = normalizeWord(wordB)

\* utils/phonetics.ts: the punctuation class of normalizeWord, which has no
\* brackets, quotes or question mark
PunctuationRe_utils ==
    Set({".", ",", "/", "#", "!", "$", "%", "^", "&", "*", ";", ":", "{", "}", "=", "-",
         "_", Char("`'", 1), "~", "(", ")"})

\* utils/phonetics.ts: the chain of replace calls of normalizeWord
phoneticSwaps_utils ==
    << << Lit("v"), "w" >>, << Lit("ph"), "f" >>, << Lit("z"), "j" >>, << Lit("ee"), "i" >>,
       << Lit("oo"), "u" >>, << Lit("sh"), "s" >>, << Lit("th"), "d" >> >>

normalizeWord_utils(word) ==
    IF word = "" THEN ""
    ELSE ReplaceEach(replace(toLowerCase(word), PunctuationRe_utils, ""),
                     phoneticSwaps_utils, 1)

isFuzzyMatch_utils(wordA, wordB) ==
    IF wordA = wordB THEN TRUE
    ELSE IF toLowerCase(wordA) = toLowerCase(wordB) THEN TRUE
    ELSE normalizeWord_utils(wordA) = normalizeWord_utils(wordB)

\* the words compared
FuzzyWords ==
    { "wideo", "video", "Video", "cat", "dog", "that", "dat", "phone", "fone!", "school",
      "skul", "" }

InitFuzzy ==
    /\ pc = "words"
    /\ NotCalled
    /\ input \in FuzzyWords \X FuzzyWords
    /\ output = << >>

\* isFuzzyMatch(a, b), isFuzzyMatch(b, a) and isFuzzyMatch(a, a), of
\* offlineService.ts and of utils/phonetics.ts
FuzzyMatch ==
    /\ pc = "words"
    /\ output' = << << isFuzzyMatch(input[1], input[2]),
                       isFuzzyMatch(input[2], input[1]),
                       isFuzzyMatch(input[1], input[1]) >>,
                    << isFuzzyMatch_utils(input[1], input[2]),
                       isFuzzyMatch_utils(input[2], input[1]),
                       isFuzzyMatch_utils(input[1], input[1]) >> >>
    /\ pc' = "matched"
    /\ UNCHANGED << input, call >>

NextFuzzy ==
    \/ FuzzyMatch

SpecFuzzy == InitFuzzy /\ [][NextFuzzy]_vars

\* are the results of one implementation those of a reflexive and symmetric
\* relation that holds exactly when `same` does
FuzzyLaw(results, same) ==
    /\ results[1] = same
    /\ results[1] = results[2]
    /\ results[3]

\* are a and b equal when case is ignored
SameIgnoringCase(a, b) == toLowerCase(a) = toLowerCase(b)

\* C12: isFuzzyMatch(a, b) is true if and only if normalizeWord(a) equals
\* normalizeWord(b) or a and b are equal case-insensitively; it is true of
\* "wideo" and "video", false of "cat" and "dog", reflexive and symmetric
\* (both implementations, checked under SpecFuzzy).
FuzzyMatchIsKeyEquality ==
    pc = "matched" =>
        /\ FuzzyLaw(output[1], normalizeWord(input[1]) = normalizeWord(input[2])
                               \/ SameIgnoringCase(input[1], input[2]))
        /\ FuzzyLaw(output[2], normalizeWord_utils(input[1]) = normalizeWord_utils(input[2])
                               \/ SameIgnoringCase(input[1], input[2]))
        /\ input = << "wideo", "video" >> => output[1][1] /\ output[2][1]
        /\ input = << "cat", "dog" >> => ~output[1][1] /\ ~output[2][1]

\* "wideo" and "video" have been found to match
WideoMatchesVideo ==
    /\ pc = "matched"
    /\ input = << "wideo", "video" >>
    /\ output[1][1]
    /\ output[2][1]

-----------------------------------------------------------------------------
(* applyITN (offlineService.ts 467-489) under every choice of options      *)

\* texts in which each pass has work to do, with the trace each pass leaves
ITNTexts ==
    { [ text |-> "rama paid 50 rupees for twenty", currency |-> "paid ₹50 for",
        numbers |-> "for 20", schwa |-> "Ram paid" ],
      [ text |-> "Arjuna has rs 100 and do pens", currency |-> "has ₹100 and",
        numbers |-> "and 2 pens", schwa |-> "Arjun has" ],
      [ text |-> "5 rupee to shiva at ten", currency |-> "₹5 to",
        numbers |-> "at 10", schwa |-> "to Shiv at" ],
      [ text |-> "Ek crore: INR 7,5 Ravana ji", currency |-> ": ₹7,5 ",
        numbers |-> "1 10000000:", schwa |-> " Ravan ji" ] }

\* an options object: each flag is absent, true or false
ITNFlags == { "normalizeCurrency", "convertNumberWords", "applySchwa" }

ITNOptions ==
    UNION { [given -> BOOLEAN] : given \in SUBSET ITNFlags }

InitITN ==
    /\ pc = "text"
    /\ NotCalled
    /\ input \in ITNTexts \X ITNOptions
    /\ output = << >>

\* applyITN(text, options)
ApplyITN ==
    /\ pc = "text"
    /\ output' = << applyITN(input[1].text, input[2]) >>
    /\ pc' = "itn applied"
    /\ UNCHANGED << input, call >>

NextITN ==
    \/ ApplyITN

SpecITN == InitITN /\ [][NextITN]_vars

\* is the flag on: given as true, or absent with a default of true
FlagOn(options, name, default) ==
    IF name \in DOMAIN options THEN options[name] ELSE default

\* C13: applyITN with no options applies the currency pass and the
\* schwa/name pass and never the number-word pass; each pass runs exactly
\* when its flag is on, by default (currency and schwa on, number words
\* off) or explicitly (checked under SpecITN).
ITNPassesFollowFlags ==
    pc = "itn applied" =>
        /\ includes(output[1], input[1].currency)
              = FlagOn(input[2], "normalizeCurrency", TRUE)
        /\ includes(output[1], input[1].numbers)
              = FlagOn(input[2], "convertNumberWords", FALSE)
        /\ includes(output[1], input[1].schwa)
              = FlagOn(input[2], "applySchwa", TRUE)
        /\ input[2] = NoOptions =>
              output[1] = applySchwaRules(normalizeCurrency(input[1].text))

\* applyITN has run without options on a text with a number word, and has
\* left the number word alone
NoOptionsKeepNumberWords ==
    /\ pc = "itn applied"
    /\ input[2] = NoOptions
    /\ output[1] = "Ram paid ₹50 for twenty"

-----------------------------------------------------------------------------
(* correctSrtWithWordBank (offlineService.ts 258-294)                      *)

\* /\d{2}:\d{2}:\d{2},\d{3}/
TimestampRe ==
    Seq_(<< Rep(Set(Digits), 2, 2, TRUE), Lit(":"), Rep(Set(Digits), 2, 2, TRUE), Lit(":"),
            Rep(Set(Digits), 2, 2, TRUE), Lit(","), Rep(Set(Digits), 3, 3, TRUE) >>)

\* /\d{2}:\d{2}:\d{2},\d{3}\s*-->\s*\d{2}:\d{2}:\d{2},\d{3}/
TimeRangeRe == Seq_(<< TimestampRe, Star(WS), Lit("-->"), Star(WS), TimestampRe >>)

\* RegExp.prototype.test
test(r, s) == Let(s, LAMBDA str : Matches(r, str) # << >>)

EmptySourceError == "Source content is empty."

resolve(value) == [ settled |-> "resolved", value |-> value ]

reject(reason) == [ settled |-> "rejected", value |-> reason ]

\* what the track path resolves with, or the free text path when no block parses
reconstruct(blocks, correctedContent) ==
    IF Len(blocks) > 0 THEN resolve(stringifySrt(blocks))
    ELSE resolve(applyITN(correctedContent, NoOptions))

\* the settlement of the promise correctSrtWithWordBank returns
correctSrtWithWordBank(srt, customBank) ==
    IF isBlank(srt) THEN reject(EmptySourceError)
    ELSE Let(applyWordBank(srt, customBank),
             LAMBDA correctedContent :
                IF test(TimeRangeRe, srt)
                THEN Let(parseSrt(correctedContent),
                         LAMBDA blocks : reconstruct(blocks, correctedContent))
                ELSE resolve(applyITN(correctedContent, NoOptions)))

\* the contents given to the quick fix: tracks, tracks no block of which
\* parses, and free text
QuickFixContents ==
    Captions
    \cup { TimeRange(1), "7\n" \o TimeRange(1), TimeRange(1) \o "\nplz wideo",
           "[music] wideo plz", "John: gud 50 rupees", "rama said wideo", "sir ok",
           "www.a.b plz" }

QuickFixBanks ==
    { << >>, << << "ok", "okay" >> >>, << << "sir", "Sir" >> >>, << << "hello", "" >> >> }

InitQuickFix ==
    /\ pc = "content"
    /\ NotCalled
    /\ input \in QuickFixContents \X QuickFixBanks
    /\ output = << >>

\* the timer callback of correctSrtWithWordBank(srtContent, customWordBank)
CorrectSrt ==
    /\ pc = "content"
    /\ output' = << correctSrtWithWordBank(input[1], input[2]) >>
    /\ pc' = "quick fixed"
    /\ UNCHANGED << input, call >>

NextQuickFix ==
    \/ CorrectSrt

SpecQuickFix == InitQuickFix /\ [][NextQuickFix]_vars

\* the ITN-normalized cleaned text, in either order of the two
CleanedWithITN(text) ==
    { applyITN(cleanText(text), NoOptions), cleanText(applyITN(text, NoOptions)) }

\* C14: correctSrtWithWordBank rejects an empty or whitespace-only input;
\* a content with a time range resolves with the re-serialization of the
\* blocks parsed from the dictionary-corrected text; any other content
\* resolves with the ITN-normalized, cleaned dictionary-corrected text
\* (checked under SpecQuickFix).
QuickFixPaths ==
    pc = "quick fixed" =>
        IF isBlank(input[1]) THEN output[1].settled = "rejected"
        ELSE /\ output[1].settled = "resolved"
             /\ IF test(TimeRangeRe, input[1])
                THEN output[1].value = stringifySrt(parseSrt(applyWordBank(input[1], input[2])))
                ELSE output[1].value \in CleanedWithITN(applyWordBank(input[1], input[2]))

-----------------------------------------------------------------------------
(* parseSrt and stringifySrt (offlineService.ts 63-91) on tracks built     *)
(* from chunks of known lines.  A line is what lies between two newline    *)
(* characters: one newline after the last chunk gives it an empty last     *)
(* line.                                                                   *)

MaxChunks == 2

ChunkKinds ==
    << << "1", TimeRange(1), "Hello sir" >>,
       << "2", TimeRange(2), "how are", "you" >>,
       << "7", "junk" >>,
       << "stray" >> >>

ChunkSeparators == { "\n\n", "\n\n\n", "\r\n\r\n" }

TrackInputs ==
    UNION { [ chunks : [1..n -> 1..Len(ChunkKinds)], separator : ChunkSeparators,
              prefix : { "", "\n\n" }, suffix : { "", "\n", "\n\n" } ] : n \in 1..MaxChunks }

\* the text of the track
TrackText(in) ==
    in.prefix
        \o join([k \in 1..Len(in.chunks) |-> join(ChunkKinds[in.chunks[k]], "\n")],
                in.separator)
        \o in.suffix

InitTrack ==
    /\ pc = "track"
    /\ NotCalled
    /\ input \in TrackInputs
    /\ output = << >>

\* parseSrt(track), and stringifySrt of its blocks
ParseTrack ==
    /\ pc = "track"
    /\ output' = Let(parseSrt(TrackText(input)),
                     LAMBDA blocks : << blocks, stringifySrt(blocks) >>)
    /\ pc' = "parsed"
    /\ UNCHANGED << input, call >>

NextTrack ==
    \/ ParseTrack

SpecTrack == InitTrack /\ [][NextTrack]_vars

\* the lines of the k-th chunk of the track
ChunkLines(in, k) ==
    ChunkKinds[in.chunks[k]]
        \o (IF k = Len(in.chunks) /\ in.suffix = "\n" THEN << "" >> ELSE << >>)

\* the chunks of at least 3 lines, in order
RetainedChunks(in) ==
    SelectSeq([k \in 1..Len(in.chunks) |-> k], LAMBDA k : Len(ChunkLines(in, k)) >= 3)

\* the lines of the chunks whose number of lines is in counts
LinesOfChunks(in, counts) ==
    UNION { { ChunkLines(in, k)[i] : i \in 1..Len(ChunkLines(in, k)) } :
            k \in { j \in 1..Len(in.chunks) : Len(ChunkLines(in, j)) \in counts } }

\* the content of the chunks of fewer than 3 lines that no retained chunk has
DiscardedLines(in) ==
    (LinesOfChunks(in, 0..2) \ LinesOfChunks(in, 3..5)) \ { "" }

\* C15: parseSrt discards exactly the blank-line-separated blocks of fewer
\* than 3 lines and keeps every other block, in input order, with its first
\* line as id and its second as time range; stringifySrt emits the retained
\* blocks only, in that order, so no discarded content appears in the
\* output, and a block survives whenever the track has one of 3 lines
\* (checked under SpecTrack).
MalformedBlocksDropped ==
    pc = "parsed" =>
        LET kept == RetainedChunks(input)
        IN  /\ Len(output[1]) = Len(kept)
            /\ \A j \in 1..Len(kept) :
                  /\ output[1][j].id = ChunkLines(input, kept[j])[1]
                  /\ output[1][j].time = ChunkLines(input, kept[j])[2]
            /\ output[2] = join([j \in 1..Len(kept) |->
                                    ChunkLines(input, kept[j])[1] \o "\n"
                                        \o ChunkLines(input, kept[j])[2] \o "\n"
                                        \o output[1][j].text], "\n\n")
            /\ \A line \in DiscardedLines(input) : ~includes(output[2], line)

\* a track of a malformed block and a well-formed one has been parsed, and
\* the well-formed one alone is emitted
MalformedBlockSkipped ==
    /\ pc = "parsed"
    /\ input.chunks = << 3, 1 >>
    /\ input.suffix = ""
    /\ output[2] = "1\n" \o TimeRange(1) \o "\nHello sir"

-----------------------------------------------------------------------------
(* The walk over the parts of the diff (offlineService.ts 193-231)         *)

\* partWords.forEach is at a word of an unchanged part
AtUnchangedWord == AtWord /\ ~part.added /\ ~part.removed

\* C16: when a word of an unchanged part is processed, the cursor is inside
\* the caption words and points at the entry of srtWordMap that holds that
\* same word, so the word goes to the bucket of the block it came from: the
\* cursor has advanced once for every caption word consumed, neither more
\* nor less, also when punctuation is attached to a word (the entry may
\* then hold the word with its punctuation).
CursorOnTheSameWord ==
    AtUnchangedWord =>
        /\ srtWordCursor < Len(srtWordMap)
        /\ includes(srtWordMap[srtWordCursor + 1].word, partWords[wordIdx])

\* the bucket of the current block with the word w appended
Appended(w) ==
    [newBlockTexts EXCEPT ![currentBlockIndex + 1] = Append(@, w)]

\* the origin block of the caption word consumed last, or block 0
OriginOfLastConsumed ==
    IF srtWordCursor = 0 THEN 0 ELSE srtWordMap[srtWordCursor].blockIndex

\* C17: each word of an added (script-only) part is appended to the bucket
\* of the current block index, which is the origin block of the caption
\* word consumed last, or block 0 when none has been consumed; the step
\* leaves the cursor and the current block index as they are.
AddedWordsStayInPlace ==
    [][(AtWord /\ part.added /\ wordIdx' # wordIdx) =>
            /\ currentBlockIndex = OriginOfLastConsumed
            /\ newBlockTexts' = Appended(partWords[wordIdx])
            /\ srtWordCursor' = srtWordCursor
            /\ currentBlockIndex' = currentBlockIndex]_vars

\* a word of an added part has been appended after some caption word was
\* consumed
AddedWordAppended ==
    /\ pc = "walk"
    /\ wordIdx = 2
    /\ part.added
    /\ srtWordCursor > 0
    /\ newBlockTexts[currentBlockIndex + 1] # << >>
    /\ newBlockTexts[currentBlockIndex + 1][Len(newBlockTexts[currentBlockIndex + 1])]
          = partWords[1]

\* the index of the last block that has a caption word (the caption has one)
LastBlockWithWords ==
    Max({ k - 1 : k \in { j \in 1..Len(srtBlocks) : wordsOf(srtBlocks[j].text) # << >> } })

\* the cursor has come to the end of the caption words
CursorExhausted ==
    pc = "walk" /\ srtWordCursor > 0 /\ srtWordCursor = Len(srtWordMap)

\* C18: once the cursor has come to the end of the caption words, a word of
\* a removed or unchanged part moves neither the cursor nor the current
\* block index, and every further script word (added or unchanged) is
\* appended to the current block, which is the last block that has a
\* caption word; the blocks after it receive nothing (for a caption that
\* has words, whose end the cursor has come to by advancing).
ExhaustedCursorStays ==
    /\ [][(CursorExhausted /\ AtWord /\ wordIdx' # wordIdx) =>
              /\ srtWordCursor' = srtWordCursor
              /\ currentBlockIndex' = currentBlockIndex
              /\ currentBlockIndex = LastBlockWithWords
              /\ newBlockTexts' = IF ~part.added /\ part.removed THEN newBlockTexts
                                  ELSE Appended(partWords[wordIdx])]_vars
    /\ [](CursorExhausted =>
              \A k \in 1..Len(newBlockTexts) :
                  k - 1 > LastBlockWithWords => newBlockTexts[k] = << >>)

\* the removed word "video" has been passed with the cursor already at the
\* end of the three caption words
PassedTheEnd ==
    /\ CursorExhausted
    /\ Len(srtWordMap) = 3
    /\ partIdx = 4
    /\ wordIdx = 2
    /\ part.removed
    /\ partWords = << "video" >>
    /\ diffs[2].value = ","

-----------------------------------------------------------------------------
(* applyWordBank (offlineService.ts 99-129) on single tokens               *)

\* tokens that are words
WordTokens ==
    { "constructor", "Constructor", "__proto__", "hello", "zebra", "xy", "42", "wideo",
      "video", "OK" }

\* tokens that are runs of punctuation and white space
NonWordTokens == { ",", " ", "!", "...", ", ", "\n" }

\* override maps, some with keys that are not words
TokenBanks ==
    { << >>, << << "ok", "okay" >> >>, << << ",", ";" >> >>,
      << << " ", "_" >>, << "!", "" >> >>, << << "zebra", "" >> >> }

TokenInputs ==
    [ token : WordTokens \cup NonWordTokens, bank : TokenBanks, inText : BOOLEAN ]

\* the token alone, or in a text none of whose other tokens is in a dictionary
TokenText(in) ==
    IF ~in.inText THEN in.token
    ELSE IF in.token \in WordTokens THEN "(" \o in.token \o ")"
    ELSE "ab" \o in.token \o "cd"

InitToken ==
    /\ pc = "text"
    /\ NotCalled
    /\ input \in TokenInputs
    /\ output = << >>

\* applyWordBank(text, customBank)
CorrectToken ==
    /\ pc = "text"
    /\ output' = << applyWordBank(TokenText(input), input.bank) >>
    /\ pc' = "token corrected"
    /\ UNCHANGED << input, call >>

NextToken ==
    \/ CorrectToken

SpecToken == InitToken /\ [][NextToken]_vars

\* is key a key of the dictionary whose value is not empty
IsKey(dictionary, key) ==
    \E k \in 1..Len(dictionary) : dictionary[k][1] = key /\ dictionary[k][2] # ""

\* has the word a phonetic match among the keys of the dictionary
HasPhoneticMatch(dictionary, word) ==
    \E k \in 1..Len(dictionary) : normalizeWord(dictionary[k][1]) = normalizeWord(word)

\* the token is in neither dictionary and has no phonetic match
MatchesNothing(token, bank) ==
    /\ ~IsKey(bank, toLowerCase(token))
    /\ ~IsKey(WORD_BANK, toLowerCase(token))
    /\ ~(Len(token) > 2 /\ IsAlphabetic(token)
            /\ HasPhoneticMatch(Merge(WORD_BANK, bank), toLowerCase(token)))

\* C19: a token that is no key of the override map or of the built-in bank
\* and has no phonetic match is emitted unchanged, whatever string it is
\* ("constructor" included): a text with no matching token is returned as
\* it was given (checked under SpecToken).
UnmatchedTokensUnchanged ==
    (pc = "token corrected" /\ MatchesNothing(input.token, input.bank))
        => output[1] = TokenText(input)

\* C20: a token that is a run of punctuation or white space passes through
\* applyWordBank untouched, whatever keys the override map and the
\* built-in bank have (checked under SpecToken).
NonWordTokensUntouched ==
    (pc = "token corrected" /\ input.token \in NonWordTokens)
        => output[1] = TokenText(input)

-----------------------------------------------------------------------------
(* cleanText (offlineService.ts 45-49) on the artifact token               *)

\* the artifact token as it may be written
ArtifactSpellings ==
    { "unknown", "unknow", "Unknown", "Unknow", "UNKNOWN", "UNKNOW", "unKnown" }

\* where the token stands: on a line of its own, or inline within other text
AloneContexts == { "alone", "own line", "padded line", "after speaker" }

InlineContexts == { "middle", "start", "end", "punctuated", "quoted" }

ArtifactInputs == [ token : ArtifactSpellings, context : AloneContexts \cup InlineContexts ]

ArtifactText(in) ==
    CASE in.context = "alone"         -> in.token
      [] in.context = "own line"      -> "hello\n" \o in.token \o "\nthere"
      [] in.context = "padded line"   -> "  " \o in.token \o " \nthere"
      [] in.context = "after speaker" -> "John: " \o in.token
      [] in.context = "middle"        -> "hello " \o in.token \o " there"
      [] in.context = "start"         -> in.token \o " there"
      [] in.context = "end"           -> "hello " \o in.token
      [] in.context = "punctuated"    -> "hello, " \o in.token \o ". there"
      [] in.context = "quoted"        -> "say \"" \o in.token \o "\" now"

InitArtifact ==
    /\ pc = "text"
    /\ NotCalled
    /\ input \in ArtifactInputs
    /\ output = << >>

\* cleanText(text)
CleanArtifact ==
    /\ pc = "text"
    /\ output' = << cleanText(ArtifactText(input)) >>
    /\ pc' = "artifact cleaned"
    /\ UNCHANGED << input, call >>

NextArtifact ==
    \/ CleanArtifact

SpecArtifact == InitArtifact /\ [][NextArtifact]_vars

\* has the text the token, in either spelling and any case, as a word
HasArtifactWord(text) ==
    test(Seq_(<< WB, LitI("unknow"), Opt(LitI("n")), WB >>), text)

\* has the text the spelling "unknow", in any case, as a word
HasUnknowWord(text) == test(Seq_(<< WB, LitI("unknow"), WB >>), text)

\* C22 as stated: the cleaned text never has the token, in either spelling,
\* as a standalone word, whether it stood alone on a line or inline.
NoArtifactWordLeft ==
    pc = "artifact cleaned" => ~HasArtifactWord(output[1])

\* C22 as amended: the token is removed in both spellings where it stands
\* alone on a line, the spelling "unknow" is removed wherever it stands as
\* a word, and the spelling "unknown" inline within other text is kept as
\* written.
ArtifactRemovedWhereAlone ==
    pc = "artifact cleaned" =>
        /\ ~HasUnknowWord(output[1])
        /\ input.context \in AloneContexts => ~HasArtifactWord(output[1])
        /\ (input.context \in InlineContexts /\ toLowerCase(input.token) = "unknown")
              => includes(output[1], input.token)

\* a text with "unknown" inline has been cleaned, and the word is still there
InlineUnknownKept ==
    /\ pc = "artifact cleaned"
    /\ input = [ token |-> "unknown", context |-> "middle" ]
    /\ output[1] = "hello unknown there"

-----------------------------------------------------------------------------
(* cleanText (offlineService.ts 29-32) on delimited spans                  *)

Openers == << "[", "(", "{", "<" >>

Closers == << "]", ")", "}", ">" >>

\* a span from an opening delimiter to a closing delimiter, of the same kind
\* or not, within a text
SpanInputs ==
    [ open : 1..Len(Openers), close : 1..Len(Closers), inner : { " b and c ", "x", "" },
      before : { "a ", "" }, after : { " d", "" } ]

SpanText(in) ==
    in.before \o Openers[in.open] \o in.inner \o Closers[in.close] \o in.after

InitSpan ==
    /\ pc = "text"
    /\ NotCalled
    /\ input \in SpanInputs
    /\ output = << >>

\* cleanText(text)
CleanSpan ==
    /\ pc = "text"
    /\ output' = << cleanText(SpanText(input)) >>
    /\ pc' = "span cleaned"
    /\ UNCHANGED << input, call >>

NextSpan ==
    \/ CleanSpan

SpecSpan == InitSpan /\ [][NextSpan]_vars

\* the text with its white space collapsed and trimmed, nothing else removed
Collapsed(text) == trim(replace(text, SpacesRe, " "))

\* C23: the bracket rule removes a span that opens and closes with the same
\* pair of delimiters, delimiters included, and removes nothing between an
\* opening delimiter of one kind and a closing delimiter of another kind
\* (checked under SpecSpan).
OnlyPairedSpansRemoved ==
    pc = "span cleaned" =>
        output[1] = IF input.open = input.close
                    THEN Collapsed(input.before \o input.after)
                    ELSE Collapsed(SpanText(input))

-----------------------------------------------------------------------------
(* applySchwaRules (offlineService.ts 417-452) on the names of its table   *)

\* the names of the table whose full form is to be kept
SchwaExceptions == { "krishna", "ganga", "mathura", "ayodhya" }

SchwaInputs ==
    [ name : 1..Len(SCHWA_DELETIONS), spelling : Spellings, inText : BOOLEAN ]

\* the name as written in the input
WrittenName(in) == Spelt(SCHWA_DELETIONS[in.name][1], in.spelling)

\* a text around what stands for the name
AroundName(in, name) == IF in.inText THEN "sri " \o name \o " ji" ELSE name

InitSchwa ==
    /\ pc = "text"
    /\ NotCalled
    /\ input \in SchwaInputs
    /\ output = << >>

\* applySchwaRules(text)
ApplySchwa ==
    /\ pc = "text"
    /\ output' = << applySchwaRules(AroundName(input, WrittenName(input))) >>
    /\ pc' = "schwa applied"
    /\ UNCHANGED << input, call >>

NextSchwa ==
    \/ ApplySchwa

SpecSchwa == InitSchwa /\ [][NextSchwa]_vars

\* C24: applySchwaRules leaves a name of the exception list exactly as it
\* is written in the input, in whatever letter case, and rewrites every
\* other name of the table, as a whole word, to its short form (checked
\* under SpecSchwa).
ExceptionNamesKept ==
    pc = "schwa applied" =>
        output[1] = IF SCHWA_DELETIONS[input.name][1] \in SchwaExceptions
                    THEN AroundName(input, WrittenName(input))
                    ELSE AroundName(input, SCHWA_DELETIONS[input.name][2])

-----------------------------------------------------------------------------
(* findPhoneticMatch (offlineService.ts 612-625) and the phonetic fallback *)
(* of applyWordBank (117-123), on dictionaries several keys of which sound *)
(* like the word                                                           *)

\* keys for override maps, each with the value it is given
PhoneticKeys == { "vada", "wada", "fone", "phone", "ghud", "wideo" }

PhoneticValue(key) == "<" \o key \o ">"

\* the override maps: no key, one key, or two keys in either order
PhoneticBanks ==
    { << >> }
    \cup { << << k, PhoneticValue(k) >> >> : k \in PhoneticKeys }
    \cup { << << ks[1], PhoneticValue(ks[1]) >>, << ks[2], PhoneticValue(ks[2]) >> >> :
            ks \in { pair \in PhoneticKeys \X PhoneticKeys : pair[1] # pair[2] } }

PhoneticWords == { "wadh", "phone", "video", "Good", "xyz" }

\* which words sound alike under the replacement rules, worked out by hand:
\* v is w, ph is f, dh and gh lose their h, oo is u, a final a or h is silent
SoundsLike ==
    [ w \in { "vada", "wada", "wadh", "fone", "phone", "ghud", "good", "gud", "wideo",
              "video", "plz", "xyz" } |->
        CASE w \in { "vada", "wada", "wadh" } -> "wad"
          [] w \in { "fone", "phone" }        -> "fone"
          [] w \in { "ghud", "good", "gud" }  -> "gud"
          [] w \in { "wideo", "video" }       -> "wideo"
          [] OTHER                            -> w ]

InitPhonetic ==
    /\ pc = "word"
    /\ NotCalled
    /\ input \in [ word : PhoneticWords, bank : PhoneticBanks ]
    /\ output = << >>

\* findPhoneticMatch(word, dictionary) on the override map as the dictionary,
\* and applyWordBank(word, customBank)
MatchPhonetic ==
    /\ pc = "word"
    /\ output' = << findPhoneticMatch(toLowerCase(input.word), input.bank),
                    applyWordBank(input.word, input.bank) >>
    /\ pc' = "phonetic matched"
    /\ UNCHANGED << input, call >>

NextPhonetic ==
    \/ MatchPhonetic

SpecPhonetic == InitPhonetic /\ [][NextPhonetic]_vars

\* the first of the keys that sounds like the word, as << key >>, or << >>
FirstSoundingLike(keys, word) ==
    LET hits == { k \in 1..Len(keys) : SoundsLike[keys[k]] = SoundsLike[toLowerCase(word)] }
    IN  IF hits = {} THEN << >>
        ELSE << keys[CHOOSE k \in hits : \A other \in hits : k <= other] >>

\* the keys of the merged view: the built-in keys in bank order, then the
\* keys only the override map has
MergedKeys(bank) ==
    Keys(WORD_BANK) \o SelectSeq(Keys(bank), LAMBDA key : ~HasOwn(WORD_BANK, key))

\* the value of the merged view under a key: the override's where it has one
MergedValue(bank, key) == IF HasOwn(bank, key) THEN Own(bank, key) ELSE Own(WORD_BANK, key)

\* C25: findPhoneticMatch returns the first key, in the order of the
\* dictionary, whose normalized form is that of the word, or null; the
\* phonetic fallback of applyWordBank looks in the merged view (built-in
\* keys in bank order, then override-only keys) and replaces the token by
\* the merged, override-winning value under that first key (checked under
\* SpecPhonetic).
FirstPhoneticKeyWins ==
    pc = "phonetic matched" =>
        /\ output[1] = FirstSoundingLike(Keys(input.bank), input.word)
        /\ (~HasOwn(input.bank, toLowerCase(input.word))
              /\ ~HasOwn(WORD_BANK, toLowerCase(input.word)))
              => LET first == FirstSoundingLike(MergedKeys(input.bank), input.word)
                 IN  output[2] = IF first = << >> THEN input.word
                                 ELSE MergedValue(input.bank, first[1])

\* a word that sounds like both keys of the override map has been replaced
\* by the value of the first of them
FirstOfTwoKeysTaken ==
    /\ pc = "phonetic matched"
    /\ input.word = "wadh"
    /\ Keys(input.bank) = << "wada", "vada" >>
    /\ output = << << "wada" >>, "<wada>" >>

-----------------------------------------------------------------------------
(* The result of alignSrtOffline parsed again (offlineService.ts 63-91,    *)
(* 233-243)                                                                *)

\* have the two lists of blocks the same ids and time ranges, in order
SameTiming(blocks, others) ==
    /\ Len(blocks) = Len(others)
    /\ \A k \in 1..Len(blocks) :
          blocks[k].id = others[k].id /\ blocks[k].time = others[k].time

\* C28: the serialized output is stable under parsing: for the blocks an
\* alignment ends with, parseSrt(stringifySrt(blocks)) gives as many
\* blocks, with the same ids and time ranges in the same order, also when
\* the text of a block has become empty.
ReparseKeepsBlocks ==
    (pc = "done" /\ settled = "resolved")
        => SameTiming(parseSrt(stringifySrt(srtBlocks)), srtBlocks)

\* the number of words in the buckets
Bucketed(texts) == Len(Flatten(texts, 1, Len(texts)))

\* C27: throughout the walk the current block index is within 0..N-1 for
\* the N parsed blocks and never decreases, and the cursor never exceeds
\* the number of caption words; the bounds check before an append is
\* therefore always satisfied: every word of an added or unchanged part
\* is appended, none is dropped.
RebucketingInBounds ==
    /\ [](pc = "walk" =>
              /\ currentBlockIndex \in 0..(Len(srtBlocks) - 1)
              /\ Len(newBlockTexts) = Len(srtBlocks)
              /\ srtWordCursor \in 0..Len(srtWordMap))
    /\ [][(pc = "walk" /\ pc' = "walk") =>
              /\ currentBlockIndex' >= currentBlockIndex
              /\ (AtWord /\ wordIdx' # wordIdx /\ (part.added \/ ~part.removed))
                    => Bucketed(newBlockTexts') = Bucketed(newBlockTexts) + 1]_vars

\* the walk has reached the second block and appended a word to its bucket
SecondBucketFilled ==
    /\ pc = "walk"
    /\ currentBlockIndex = 1
    /\ srtWordCursor > 0
    /\ newBlockTexts[2] # << >>

-----------------------------------------------------------------------------
(* The settlement of alignSrtOffline (offlineService.ts 144-250).  The     *)
(* timer set by the call fires, and its callback runs to its end without   *)
(* waiting for anything: every step that is enabled is taken.              *)

FairSpec == Spec /\ WF_vars(Next)

Settled == settled \in { "resolved", "rejected" }

\* do the arguments pass the three validations
ValidationsPass ==
    /\ ~isBlank(srtContent)
    /\ ~isBlank(scriptContent)
    /\ Len(parseSrt(applyWordBank(srtContent, customWordBank))) > 0
    /\ Len(wordsOf(cleanText(scriptContent))) > 0

\* C26: every invocation of alignSrtOffline eventually settles, and settles
\* once; it resolves, and never rejects, whenever both inputs are not
\* blank, a block parses and the cleaned script has a word: no step after
\* the validations raises an error (checked under FairSpec).
SettlesOnce ==
    /\ (settled = "pending") ~> Settled
    /\ [][Settled => settled' = settled]_vars
    /\ [](Settled => (settled = "resolved" <=> ValidationsPass))

\* an alignment of two blocks has resolved
TwoBlocksResolved ==
    /\ pc = "done"
    /\ settled = "resolved"
    /\ Len(srtBlocks) = 2
    /\ result # << >>

-----------------------------------------------------------------------------
(* The callback of alignSrtOffline as one step (offlineService.ts 144-250):*)
(* a timer callback runs to its end before any other callback starts, so   *)
(* to its callers an invocation is its call and, later, its settlement.    *)

\* the locals of step 5 when the cursor has moved over one caption word,
\* under its guard
advanced(wordMap, locals) ==
    IF locals.srtWordCursor < Len(wordMap)
    THEN [locals EXCEPT !.currentBlockIndex = wordMap[locals.srtWordCursor + 1].blockIndex,
                        !.srtWordCursor = locals.srtWordCursor + 1]
    ELSE locals

\* the callback of partWords.forEach for the word w of the part p
wordStep(wordMap, locals, p, w) ==
    IF p.added
    THEN [locals EXCEPT !.newBlockTexts = push(locals.newBlockTexts, locals.currentBlockIndex, w)]
    ELSE IF p.removed THEN advanced(wordMap, locals)
    ELSE Let(advanced(wordMap, locals),
             LAMBDA at : [at EXCEPT !.newBlockTexts =
                                       push(at.newBlockTexts, at.currentBlockIndex, w)])

\* partWords.forEach from the word k on
RECURSIVE wordsFrom(_, _, _, _, _)
wordsFrom(wordMap, locals, p, ws, k) ==
    IF k > Len(ws) THEN locals
    ELSE Let(wordStep(wordMap, locals, p, ws[k]),
             LAMBDA next : wordsFrom(wordMap, next, p, ws, k + 1))

\* diffs.forEach from the part k on
RECURSIVE partsFrom(_, _, _, _)
partsFrom(wordMap, locals, ps, k) ==
    IF k > Len(ps) THEN locals
    ELSE Let(wordsOf(ps[k].value),
             LAMBDA ws :
                Let(wordsFrom(wordMap, locals, ps[k], ws, 1),
                    LAMBDA next : partsFrom(wordMap, next, ps, k + 1)))

\* steps 5 to 7 for the parts ps the diff gave
rebucket(blocks, wordMap, ps) ==
    Let(partsFrom(wordMap,
                  [ newBlockTexts     |-> Tuple([k \in 1..Len(blocks) |-> << >>]),
                    currentBlockIndex |-> 0,
                    srtWordCursor     |-> 0 ], ps, 1),
        LAMBDA locals :
            applyITN(stringifySrt(format(blocks, locals.newBlockTexts)), NoOptions))

\* steps 3 to 7: one settlement for every result the diff can give
alignBlocks(blocks, ws) ==
    Let(buildWordMap(blocks),
        LAMBDA wordMap :
            { resolve(rebucket(blocks, wordMap, ps)) :
                ps \in diffWords(join([k \in 1..Len(wordMap) |-> wordMap[k].word], " "),
                                 join(ws, " ")) })

\* steps 1 to 7 on the dictionary-corrected track
alignCorrected(corrected, script) ==
    Let(parseSrt(corrected),
        LAMBDA blocks :
            IF Len(blocks) = 0 THEN { reject(NoSubtitlesError) }
            ELSE Let(wordsOf(cleanText(script)),
                     LAMBDA ws : IF Len(ws) = 0 THEN { reject(NoUsableTextError) }
                                 ELSE alignBlocks(blocks, ws)))

\* a settlement together with the two dictionary objects as the callback
\* leaves them
leaving(settlements, bank, customBank) ==
    { [ settled |-> to.settled, value |-> to.value,
        bank |-> bank, customBank |-> customBank ] : to \in settlements }

\* the callback of alignSrtOffline(srt, script, customBank), the object
\* WORD_BANK being bank: what it can settle the promise with
alignSrtOfflineIn(bank, srt, script, customBank) ==
    IF isBlank(srt) THEN leaving({ reject(EmptySrtError) }, bank, customBank)
    ELSE IF isBlank(script) THEN leaving({ reject(EmptyScriptError) }, bank, customBank)
    ELSE Let(applyWordBankIn(bank, srt, customBank),
             LAMBDA applied :
                leaving(alignCorrected(applied.text, script), applied.bank, applied.customBank))

\* the callback of correctSrtWithWordBank(srt, customBank), likewise
correctSrtWithWordBankIn(bank, srt, customBank) ==
    IF isBlank(srt) THEN leaving({ reject(EmptySourceError) }, bank, customBank)
    ELSE Let(applyWordBankIn(bank, srt, customBank),
             LAMBDA applied :
                leaving({ IF test(TimeRangeRe, srt)
                          THEN Let(parseSrt(applied.text),
                                   LAMBDA blocks : reconstruct(blocks, applied.text))
                          ELSE resolve(applyITN(applied.text, NoOptions)) },
                        applied.bank, applied.customBank))

\* the settlement of the call of Spec
Settlement ==
    [ settled |-> settled,
      value   |-> IF settled = "resolved" THEN result[1] ELSE error[1],
      bank    |-> WORD_BANK, customBank |-> customWordBank ]

\* the steps of the callback, taken one after the other, settle the promise
\* as the callback taken as one step does
StepsMakeTheCallback ==
    pc = "done" =>
        Settlement \in alignSrtOfflineIn(WORD_BANK, srtContent, scriptContent, customWordBank)

-----------------------------------------------------------------------------
(* Invocations pending at once.  A caller calls alignSrtOffline or         *)
(* correctSrtWithWordBank and holds the promise; the timer callbacks of    *)
(* the pending invocations run one at a time, in any order.  Every call is *)
(* given a dictionary object of its own, whose content when passed is kept *)
(* beside the object.                                                      *)

\* the number of invocations made
MaxCalls == 2

SharedCaptions == { Track(1, 2), "Hello sir" }

SharedScripts == { "sir okay video", "" }

SharedBanks == { << >>, << << "ok", "okay" >> >>, << << "sir", "Sir" >> >> }

promise(kind, srt, script, customBank) ==
    [ kind           |-> kind,
      srtContent     |-> srt,
      scriptContent  |-> script,
      passed         |-> customBank,
      customWordBank |-> customBank,
      settled        |-> "pending",
      value          |-> "" ]

InitShared ==
    /\ pc = "callers"
    /\ NotCalled
    /\ input = << >>
    /\ output = << >>

\* alignSrtOffline(srt, script, customBank): new Promise, setTimeout
CallAlign ==
    /\ pc = "callers"
    /\ Len(calls) < MaxCalls
    /\ \E srt \in SharedCaptions, script \in SharedScripts, customBank \in SharedBanks :
          calls' = Append(calls, promise("align", srt, script, customBank))
    /\ UNCHANGED << pc, args, srtBlocks, scriptWords, srtWordMap, diffs, walk, settled,
                    result, error, input, output, wordBank, app >>

\* correctSrtWithWordBank(srt, customBank): new Promise, setTimeout
CallQuickFix ==
    /\ pc = "callers"
    /\ Len(calls) < MaxCalls
    /\ \E srt \in SharedCaptions, customBank \in SharedBanks :
          calls' = Append(calls, promise("quick fix", srt, "", customBank))
    /\ UNCHANGED << pc, args, srtBlocks, scriptWords, srtWordMap, diffs, walk, settled,
                    result, error, input, output, wordBank, app >>

\* the promise c settled with the settlement to
settledWith(c, to) ==
    [c EXCEPT !.settled = to.settled, !.value = to.value, !.customWordBank = to.customBank]

\* the timer of the pending invocation i fires
TimerFires(i, settlements) ==
    \E to \in settlements :
        /\ calls' = [calls EXCEPT ![i] = settledWith(calls[i], to)]
        /\ wordBank' = to.bank
        /\ UNCHANGED << pc, args, srtBlocks, scriptWords, srtWordMap, diffs, walk, settled,
                        result, error, input, output, app >>

AlignTimer ==
    /\ pc = "callers"
    /\ \E i \in 1..Len(calls) :
          /\ calls[i].kind = "align" /\ calls[i].settled = "pending"
          /\ TimerFires(i, alignSrtOfflineIn(wordBank, calls[i].srtContent,
                                             calls[i].scriptContent,
                                             calls[i].customWordBank))

QuickFixTimer ==
    /\ pc = "callers"
    /\ \E i \in 1..Len(calls) :
          /\ calls[i].kind = "quick fix" /\ calls[i].settled = "pending"
          /\ TimerFires(i, correctSrtWithWordBankIn(wordBank, calls[i].srtContent,
                                                    calls[i].customWordBank))

NextShared ==
    \/ CallAlign
    \/ CallQuickFix
    \/ AlignTimer
    \/ QuickFixTimer

SpecShared == InitShared /\ [][NextShared]_vars

\* what the invocation c can settle with when no other invocation is made
Alone(c) ==
    IF c.kind = "align"
    THEN alignSrtOfflineIn(WORD_BANK, c.srtContent, c.scriptContent, c.passed)
    ELSE correctSrtWithWordBankIn(WORD_BANK, c.srtContent, c.passed)

SettledAsAlone(c) ==
    c.settled # "pending" =>
        \E to \in Alone(c) : to.settled = c.settled /\ to.value = c.value

\* C21: alignSrtOffline, correctSrtWithWordBank and applyWordBank leave the
\* built-in word bank and the override map they are given as they were, and
\* every invocation, whatever other invocations are pending and in whatever
\* order the timers fire, settles as it would settle when run alone.
InvocationsAreIndependent ==
    pc = "callers" =>
        /\ wordBank = WORD_BANK
        /\ \A i \in 1..Len(calls) :
              /\ calls[i].customWordBank = calls[i].passed
              /\ SettledAsAlone(calls[i])

\* the second of two invocations with different override maps has settled
\* while the first is pending
SecondSettledFirst ==
    /\ pc = "callers"
    /\ Len(calls) = 2
    /\ calls[1].settled = "pending"
    /\ calls[2].settled = "resolved"
    /\ calls[1].passed # calls[2].passed
    /\ calls[2].passed # << >>

-----------------------------------------------------------------------------
(* The component App (App.tsx).  Its state is the record app; the promises *)
(* of the calls handleProcess has made are in calls.  A handler runs to    *)
(* its end before the next event is taken; the callback of the timer of    *)
(* alignSrtOffline settles the promise, and what handleProcess does after  *)
(* its await runs right behind that callback, before any other event.      *)

\* the files the user has, with their texts
AppFiles == { "a.srt" }

FileText(file) == Track(1, 2)

\* what the user types into the script box
AppScripts == { "sir okay video", "Hello" }

\* what the user types into the find box; the replace box is left empty and
\* the case box unticked
FindTexts == { "", "!" }

\* what the editor holds after the user typed in it
ManualValues == { app.originalOutput, app.originalOutput \o "!", "" }

InitApp ==
    /\ pc = "app"
    /\ NotCalled
    /\ input = { }
    /\ output = << >>

\* in an App step: the variables of the service's own call stay as they are
AppStep ==
    /\ pc = "app"
    /\ UNCHANGED << pc, args, srtBlocks, scriptWords, srtWordMap, diffs, walk, settled,
                    result, error, output >>

\* handleFileSelect(file), from the drop zone, which is shown when no file is
\* selected; the reader is started, input holds the files being read
handleFileSelect ==
    /\ AppStep
    /\ app.srtFile = << >>
    /\ \E file \in AppFiles :
          /\ app' = [app EXCEPT !.srtFile = << file >>, !.correctedSrt = "",
                                !.originalOutput = "", !.status = "IDLE",
                                !.isEdited = FALSE]
          /\ input' = input \cup { file }
    /\ UNCHANGED << wordBank, calls >>

\* reader.onload
readerOnLoad ==
    /\ AppStep
    /\ \E file \in input :
          /\ app' = [app EXCEPT !.srtContent = FileText(file)]
          /\ input' = input \ { file }
    /\ UNCHANGED << wordBank, calls >>

\* handleClearFile, from the button shown beside the selected file
handleClearFile ==
    /\ AppStep
    /\ app.srtFile # << >>
    /\ app' = [app EXCEPT !.srtFile = << >>, !.srtContent = "", !.correctedSrt = "",
                          !.originalOutput = "", !.status = "IDLE", !.isEdited = FALSE]
    /\ UNCHANGED << input, wordBank, calls >>

\* onChange of the script box
setScriptContent ==
    /\ AppStep
    /\ \E text \in AppScripts \ { app.scriptContent } :
          app' = [app EXCEPT !.scriptContent = text]
    /\ UNCHANGED << input, wordBank, calls >>

\* handleProcess up to its await; the button is disabled while an input is
\* empty and while the status is ALIGNING
handleProcess ==
    /\ AppStep
    /\ app.srtContent # "" /\ app.scriptContent # ""
    /\ app.status # "ALIGNING"
    /\ Len(calls) < MaxCalls
    /\ app' = [app EXCEPT !.status = "ALIGNING", !.errorMsg = << >>, !.isEdited = FALSE]
    /\ calls' = Append(calls, promise("align", app.srtContent, app.scriptContent,
                                      app.customDictionary))
    /\ UNCHANGED << input, wordBank >>

\* handleProcess after its await, the promise being settled with to
afterAwait(state, to) ==
    IF to.settled = "resolved"
    THEN [state EXCEPT !.correctedSrt = to.value, !.originalOutput = to.value,
                       !.status = "COMPLETED"]
    ELSE [state EXCEPT !.errorMsg = << IF to.value # "" THEN to.value
                                       ELSE "An unknown error occurred" >>,
                       !.status = "ERROR"]

\* the timer of a pending call fires, and handleProcess goes on
alignmentSettles ==
    /\ AppStep
    /\ \E i \in 1..Len(calls) :
          /\ calls[i].settled = "pending"
          /\ \E to \in alignSrtOfflineIn(wordBank, calls[i].srtContent,
                                         calls[i].scriptContent, calls[i].customWordBank) :
                /\ calls' = [calls EXCEPT ![i] = settledWith(calls[i], to)]
                /\ wordBank' = to.bank
                /\ app' = afterAwait(app, to)
    /\ UNCHANGED input

\* handleManualEdit: onChange of the editor, which is there while
\* correctedSrt is not empty
handleManualEdit ==
    /\ AppStep
    /\ app.correctedSrt # ""
    /\ \E newValue \in ManualValues \ { app.correctedSrt } :
          app' = [app EXCEPT !.correctedSrt = newValue,
                             !.isEdited = IF app.originalOutput # ""
                                          THEN newValue # app.originalOutput
                                          ELSE FALSE]
    /\ UNCHANGED << input, wordBank, calls >>

\* handleRevert, confirmed; its button is there while isEdited
handleRevert ==
    /\ AppStep
    /\ app.isEdited
    /\ app' = [app EXCEPT !.correctedSrt = app.originalOutput, !.isEdited = FALSE]
    /\ UNCHANGED << input, wordBank, calls >>

\* the find box of the find panel, which opens while correctedSrt is not empty
setFindText ==
    /\ AppStep
    /\ app.correctedSrt # ""
    /\ \E text \in FindTexts \ { app.findText } : app' = [app EXCEPT !.findText = text]
    /\ UNCHANGED << input, wordBank, calls >>

\* String.prototype.substring(start, end), start <= end within the string
substring(s, start, end) == SubSeq(s, start + 1, end)

\* isMatch of handleReplaceOne
isMatch(selectedText, findText, matchCase) ==
    IF matchCase THEN selectedText = findText
    ELSE toLowerCase(selectedText) = toLowerCase(findText)

\* handleReplaceOne with the selection start..end of the editor on a match
\* (on any other selection it only looks for the next match)
handleReplaceOne ==
    /\ AppStep
    /\ app.correctedSrt # "" /\ app.findText # ""
    /\ \E start \in 0..Len(app.correctedSrt) :
          \E end \in { start + Len(app.findText) } \cap (0..Len(app.correctedSrt)) :
             /\ isMatch(substring(app.correctedSrt, start, end), app.findText, app.matchCase)
             /\ app' = [app EXCEPT !.correctedSrt =
                                       substring(app.correctedSrt, 0, start)
                                           \o app.replaceText
                                           \o substring(app.correctedSrt, end,
                                                        Len(app.correctedSrt)),
                                   !.isEdited = TRUE]
    /\ UNCHANGED << input, wordBank, calls >>

\* new RegExp(escapedSearch, flags): the text itself, in both cases without
\* matchCase
searchRe(findText, matchCase) == IF matchCase THEN Lit(findText) ELSE LitI(findText)

\* handleReplaceAll where there is a match (without one it only shows a toast)
handleReplaceAll ==
    /\ AppStep
    /\ app.findText # ""
    /\ Matches(searchRe(app.findText, app.matchCase), app.correctedSrt) # << >>
    /\ \E newText \in { replace(app.correctedSrt, searchRe(app.findText, app.matchCase),
                                app.replaceText) } :
          app' = [app EXCEPT !.correctedSrt = newText,
                             !.isEdited = IF newText # app.originalOutput THEN TRUE ELSE @]
    /\ UNCHANGED << input, wordBank, calls >>

NextApp ==
    \/ handleFileSelect
    \/ readerOnLoad
    \/ handleClearFile
    \/ setScriptContent
    \/ handleProcess
    \/ alignmentSettles
    \/ handleManualEdit
    \/ handleRevert
    \/ setFindText
    \/ handleReplaceOne
    \/ handleReplaceAll

SpecApp == InitApp /\ [][NextApp]_vars

\* the call i is settled as resolved in this step
Resolves(i) ==
    /\ i <= Len(calls)
    /\ calls[i].settled = "pending"
    /\ calls'[i].settled = "resolved"

\* the inputs of App are those the call c was made with
SameInputs(c) ==
    /\ app.srtContent = c.srtContent
    /\ app.scriptContent = c.scriptContent

\* C29: in App the result of a pending alignment is committed only for the
\* inputs it was computed from: when the source file has been cleared or
\* replaced, or the script edited, while handleProcess awaits, the late
\* result overwrites neither correctedSrt nor originalOutput and does not
\* make the status COMPLETED.
LateResultNotCommitted ==
    [][\A i \in 1..MaxCalls :
          (pc = "app" /\ Resolves(i) /\ ~SameInputs(calls[i]))
              => /\ app'.correctedSrt = app.correctedSrt
                 /\ app'.originalOutput = app.originalOutput
                 /\ (app'.status = "COMPLETED" => app.status = "COMPLETED")]_vars

\* C30: in App isEdited is true only while correctedSrt differs from
\* originalOutput, whatever process, manual edit, replace-one, replace-all
\* and revert actions were taken; a successful alignment and a confirmed
\* revert leave correctedSrt equal to originalOutput and isEdited false.
EditedMeansChanged ==
    /\ [](pc = "app" => (app.isEdited => app.correctedSrt # app.originalOutput))
    /\ [][(pc = "app" /\ (handleRevert \/ \E i \in 1..MaxCalls : Resolves(i)))
              => (app'.correctedSrt = app'.originalOutput /\ ~app'.isEdited)]_vars

====
